---- MODULE Spec2Model ----
(***************************************************************************)
(* A model of the MySQL MCP server's SQL safety and access-control gate:   *)
(* SQL validation and classification (src/src/config.py,                   *)
(* src/src/database/security.py), the role-based permission manager        *)
(* (src/main.py), the query tools (src/src/tools) and the transaction      *)
(* manager (src/src/tools/transaction_tools.py,                            *)
(* src/src/database/connection.py).                                        *)
(***************************************************************************)
EXTENDS Integers, Sequences, FiniteSets, TLC

VARIABLES
    config,               \* DatabaseConfig: the github_admins/writers/readers lists
    permissions,          \* PermissionManager.permissions: username -> UserPermission
    req,                  \* the arguments of the last call
    res,                  \* what the last call returned
    mcp_sessions,         \* _mcp_sessions: login -> tools registered for that login
    acquired,             \* number of pool.acquire() calls made by the query tools
    dbCalls,              \* number of statements the query tools sent to the database
    active_transactions,  \* _active_transactions: session key -> TransactionManager
    txns,                 \* every TransactionManager that acquired a connection, with
                          \* the state of that connection, in order of acquisition
    pool,                 \* the global _pool: "unset", "open" or "closing"
    tasks,                \* the concurrent calls
    ncalls,               \* number of calls started
    shutdown,             \* position of the lifespan shutdown sequence
    pool_lock,            \* _pool_lock: the task that holds it, or 0
    pools,                \* number of pools created and not closed
    used,                 \* number of connections leased through get_connection
    sessions,             \* _sessions: session id -> session data
    now,                  \* time.time()
    writes                \* the statements execute_query sent, with the
                          \* connection each ran on

vars == <<config, permissions, req, res, mcp_sessions, acquired, dbCalls,
          active_transactions, txns, pool, tasks, ncalls, shutdown,
          pool_lock, pools, used, sessions, now, writes>>

permVars == <<config, permissions>>
toolVars == <<mcp_sessions, acquired, dbCalls>>
extVars  == <<pool_lock, pools, used, sessions, now, writes>>
txnVars  == <<active_transactions, txns, pool, tasks, ncalls, shutdown, extVars>>
\* what the transaction manager does not touch
others   == <<req, res, config, permissions, mcp_sessions, acquired, dbCalls,
              extVars>>

NoValue == "None"

(***************************************************************************)
(* Strings.  A string is a TLA+ string; At(s, i) is its i-th character.    *)
(***************************************************************************)
At(s, i) == SubSeq(s, i, i)

UpperLetters == "ABCDEFGHIJKLMNOPQRSTUVWXYZ"
LowerLetters == "abcdefghijklmnopqrstuvwxyz"

IsSpace(c) == c \in {" ", "\t", "\n", "\r", "\f"}

LowerChar(c) ==
    IF \E i \in 1..26 : At(UpperLetters, i) = c
    THEN At(LowerLetters, CHOOSE i \in 1..26 : At(UpperLetters, i) = c)
    ELSE c

UpperChar(c) ==
    IF \E i \in 1..26 : At(LowerLetters, i) = c
    THEN At(UpperLetters, CHOOSE i \in 1..26 : At(LowerLetters, i) = c)
    ELSE c

RECURSIVE lower(_)
lower(s) == IF s = "" THEN "" ELSE LowerChar(At(s, 1)) \o lower(SubSeq(s, 2, Len(s)))

RECURSIVE upper(_)
upper(s) == IF s = "" THEN "" ELSE UpperChar(At(s, 1)) \o upper(SubSeq(s, 2, Len(s)))

\* str.strip(): drop leading and trailing whitespace
strip(s) ==
    LET keep == {i \in 1..Len(s) : ~IsSpace(At(s, i))}
    IN  IF keep = {} THEN ""
        ELSE SubSeq(s, CHOOSE i \in keep : \A j \in keep : i <= j,
                       CHOOSE i \in keep : \A j \in keep : j <= i)

startswith(s, p) == Len(p) <= Len(s) /\ SubSeq(s, 1, Len(p)) = p

\* s.split()[0] if s else "": the first whitespace-delimited word
first_word(s) ==
    LET t == strip(s)
        sp == {i \in 1..Len(t) : IsSpace(At(t, i))}
    IN  IF t = "" THEN ""
        ELSE IF sp = {} THEN t
        ELSE SubSeq(t, 1, (CHOOSE i \in sp : \A j \in sp : i <= j) - 1)

(***************************************************************************)
(* Regular expressions, as far as DANGEROUS_SQL_PATTERNS uses them.  A     *)
(* pattern is a set of alternatives; an alternative is a sequence of       *)
(* items: "alt" (one of a set of literal words), "sp0" (any run of         *)
(* whitespace, possibly empty), "sp1" (a non-empty run of whitespace) and  *)
(* "any" (any run of characters other than a newline).  Positions run     *)
(* from 1 to Len(s)+1.                                                     *)
(***************************************************************************)
Lit(w)    == [k |-> "alt", ws |-> {w}]
Alt(ws)   == [k |-> "alt", ws |-> ws]
SpStar    == [k |-> "sp0", ws |-> {}]
SpPlus    == [k |-> "sp1", ws |-> {}]
AnyStar   == [k |-> "any", ws |-> {}]

ItemEnds(s, item, p) ==
    CASE item.k = "alt" ->
           {p + Len(w) : w \in {v \in item.ws :
                /\ p + Len(v) - 1 <= Len(s)
                /\ SubSeq(s, p, p + Len(v) - 1) = v}}
      [] item.k = "sp0" ->
           {q \in p..(Len(s) + 1) : \A i \in p..(q - 1) : IsSpace(At(s, i))}
      [] item.k = "sp1" ->
           {q \in (p + 1)..(Len(s) + 1) : \A i \in p..(q - 1) : IsSpace(At(s, i))}
      [] item.k = "any" ->
           {q \in p..(Len(s) + 1) : \A i \in p..(q - 1) : At(s, i) # "\n"}

RECURSIVE RunEnds(_, _, _)
RunEnds(s, items, P) ==
    IF items = <<>> THEN P
    ELSE RunEnds(s, Tail(items), UNION {ItemEnds(s, Head(items), p) : p \in P})

\* re.search(pattern, s, re.IGNORECASE | re.MULTILINE) is not None; the
\* literals of a pattern are lower-case and are compared with the
\* lower-cased text
re_search(pattern, s) ==
    LET text == lower(s)
    IN  \E alternative \in pattern :
            RunEnds(text, alternative, 1..(Len(text) + 1)) # {}

(***************************************************************************)
(* src/src/config.py                                                       *)
(***************************************************************************)
ALLOWED_USERNAMES == {"vedantparmar12"}

READ_OPERATIONS == {"select", "show", "describe", "desc", "explain"}
WRITE_OPERATIONS == {"insert", "update", "delete", "replace"}
DDL_OPERATIONS == {"create", "alter", "drop", "truncate", "rename"}
PROCEDURE_OPERATIONS == {"call", "execute"}
TRANSACTION_OPERATIONS == {"begin", "start", "commit", "rollback", "savepoint"}

DANGEROUS_SQL_PATTERNS == <<
    \* ;\s*(drop|delete|truncate|alter)\s+
    { <<Lit(";"), SpStar, Alt({"drop", "delete", "truncate", "alter"}), SpPlus>> },
    \* ;\s*delete\s+.*\s+where\s+1\s*=\s*1
    { <<Lit(";"), SpStar, Lit("delete"), SpPlus, AnyStar, SpPlus, Lit("where"),
        SpPlus, Lit("1"), SpStar, Lit("="), SpStar, Lit("1")>> },
    \* --.*drop\s+
    { <<Lit("--"), AnyStar, Lit("drop"), SpPlus>> },
    \* /\*.*\*/\s*;\s*drop
    { <<Lit("/*"), AnyStar, Lit("*/"), SpStar, Lit(";"), SpStar, Lit("drop")>> },
    \* (mysql|information_schema|performance_schema|sys)\.(user|db|tables_priv|columns_priv)
    { <<Alt({"mysql", "information_schema", "performance_schema", "sys"}), Lit("."),
        Alt({"user", "db", "tables_priv", "columns_priv"})>> },
    \* (into\s+outfile|load_file|load\s+data)
    { <<Lit("into"), SpPlus, Lit("outfile")>>,
      <<Lit("load_file")>>,
      <<Lit("load"), SpPlus, Lit("data")>> },
    \* (grant|revoke|create\s+user|drop\s+user|alter\s+user)
    { <<Lit("grant")>>,
      <<Lit("revoke")>>,
      <<Lit("create"), SpPlus, Lit("user")>>,
      <<Lit("drop"), SpPlus, Lit("user")>>,
      <<Lit("alter"), SpPlus, Lit("user")>> }
>>

is_write_access_allowed(github_username) ==
    lower(github_username) \in {lower(username) : username \in ALLOWED_USERNAMES}

\* get_operation_type comparing the first word as written, without lower()
get_operation_type_as_written(sql) ==
    LET w == first_word(strip(sql))
    IN  CASE w \in READ_OPERATIONS -> "read"
          [] w \in WRITE_OPERATIONS -> "write"
          [] w \in DDL_OPERATIONS -> "ddl"
          [] w \in PROCEDURE_OPERATIONS -> "procedure"
          [] w \in TRANSACTION_OPERATIONS -> "transaction"
          [] OTHER -> "unknown"

get_operation_type(sql) ==
    LET w == first_word(lower(strip(sql)))
    IN  CASE w \in READ_OPERATIONS -> "read"
          [] w \in WRITE_OPERATIONS -> "write"
          [] w \in DDL_OPERATIONS -> "ddl"
          [] w \in PROCEDURE_OPERATIONS -> "procedure"
          [] w \in TRANSACTION_OPERATIONS -> "transaction"
          [] OTHER -> "unknown"

(***************************************************************************)
(* src/src/database/security.py                                            *)
(***************************************************************************)
SqlValidationResult(valid, error, optype, priv) ==
    [is_valid |-> valid, error |-> error, operation_type |-> optype,
     requires_privilege |-> priv]

\* the text the deny-list is matched against
sql_normalized(sql) == strip(sql)

\* the loop over the deny-list stopping one pattern early
matches_dangerous_pattern_short(text) ==
    \E i \in 1..(Len(DANGEROUS_SQL_PATTERNS) - 1) :
        re_search(DANGEROUS_SQL_PATTERNS[i], text)

matches_dangerous_pattern(text) ==
    \E i \in 1..Len(DANGEROUS_SQL_PATTERNS) : re_search(DANGEROUS_SQL_PATTERNS[i], text)

validate_sql_query(sql) ==
    IF sql = "" \/ strip(sql) = ""
    THEN SqlValidationResult(FALSE, "SQL query cannot be empty", NoValue, FALSE)
    ELSE IF matches_dangerous_pattern(sql_normalized(sql))
    THEN SqlValidationResult(FALSE, "SQL contains potentially dangerous pattern",
                             NoValue, FALSE)
    ELSE LET operation_type == get_operation_type(sql_normalized(sql))
             requires_privilege ==
                 operation_type \in {"write", "ddl", "procedure", "transaction"}
         IN  IF /\ operation_type = "unknown"
                /\ \/ startswith(lower(sql_normalized(sql)), "with")
                   \/ startswith(lower(sql_normalized(sql)), "(")
             THEN SqlValidationResult(TRUE, NoValue, "read", requires_privilege)
             ELSE SqlValidationResult(TRUE, NoValue, operation_type, requires_privilege)

\* is_write_operation looking for the class write only
is_write_operation_write_class(sql) == validate_sql_query(sql).operation_type = "write"

is_write_operation(sql) == validate_sql_query(sql).requires_privilege

(***************************************************************************)
(* src/main.py: PermissionManager                                          *)
(***************************************************************************)
UserPermission(username, role, can_read, can_write, can_admin) ==
    [username |-> username, role |-> role, can_read |-> can_read,
     can_write |-> can_write, can_admin |-> can_admin]

\* _build_permissions: admins first, then writers and readers not yet present
build_permissions(cfg) ==
    [u \in cfg.github_admins \cup cfg.github_writers \cup cfg.github_readers |->
        IF u \in cfg.github_admins THEN UserPermission(u, "admin", TRUE, TRUE, TRUE)
        ELSE IF u \in cfg.github_writers THEN UserPermission(u, "writer", TRUE, TRUE, FALSE)
        ELSE UserPermission(u, "reader", TRUE, FALSE, FALSE)]

get_user_permission_granting(perms, username) ==
    IF username \in DOMAIN perms THEN perms[username]
    ELSE UserPermission(username, "reader", TRUE, FALSE, FALSE)

\* dict.get(username): the permission, or None
NoPermission == UserPermission(NoValue, NoValue, FALSE, FALSE, FALSE)

get_user_permission(perms, username) ==
    IF username \in DOMAIN perms THEN perms[username] ELSE NoPermission

Allowed == [allowed |-> TRUE, reason |-> NoValue]
Denied(reason) == [allowed |-> FALSE, reason |-> reason]

can_execute_query(perms, username, query) ==
    LET user_perm == get_user_permission(perms, username)
        query_upper == strip(upper(query))
    IN  IF user_perm = NoPermission THEN Denied("User not found or no permissions")
        ELSE IF \E op \in {"DROP", "ALTER", "CREATE", "TRUNCATE"} :
                    startswith(query_upper, op)
        THEN IF ~user_perm.can_admin THEN Denied("Admin permissions required")
             ELSE Allowed
        ELSE IF \E op \in {"INSERT", "UPDATE", "DELETE"} : startswith(query_upper, op)
        THEN IF ~user_perm.can_write THEN Denied("Write permissions required")
             ELSE Allowed
        ELSE IF startswith(query_upper, "SELECT")
        THEN IF ~user_perm.can_read THEN Denied("Read permissions required")
             ELSE Allowed
        ELSE Allowed

(***************************************************************************)
(* Inputs                                                                  *)
(***************************************************************************)
ConfiguredNames == {"alice", "bob"}
Usernames == ConfiguredNames \cup {"Alice", "anonymous"}

Statements == {
    "SELECT * FROM t",
    "show tables",
    "INSERT INTO t VALUES (1)",
    "UPDATE t SET a = 1",
    "DELETE FROM t",
    "REPLACE INTO t VALUES (1)",
    "CREATE TABLE t (id INT)",
    "ALTER TABLE t ADD c INT",
    "DROP TABLE t",
    "TRUNCATE TABLE t",
    "RENAME TABLE a TO b",
    "CALL p()",
    "BEGIN",
    "COMMIT",
    "SET x = 1",
    "WITH c AS (SELECT 1) SELECT * FROM c",
    "(SELECT 1)",
    "",
    "SELECT 1; DROP TABLE t",
    "SELECT 1; drop",
    "SELECT 1;\nDELETE FROM t WHERE 1=1",
    "SELECT 1 -- drop",
    "SELECT 1 /* c */ ; DROP",
    "SELECT * FROM mysql.user",
    "SELECT LOAD_FILE('f')",
    "SELECT 1 INTO OUTFILE 'f'",
    "LOAD\tDATA INFILE 'f' INTO TABLE t",
    "GRANT ALL ON t TO u",
    "SELECT * FROM grants",
    "CREATE  USER u"
}

Leading == {"", "  "}
Trailing == {"", " ", "\n", " x"}

\* every statement, with and without surrounding text
SqlInputs == {l \o s \o t : l \in Leading, s \in Statements, t \in Trailing}

NoRequest == [op |-> "none"]
Pending == [pending |-> TRUE]

PermInit ==
    /\ config \in [github_admins : SUBSET ConfiguredNames,
                   github_writers : SUBSET ConfiguredNames,
                   github_readers : SUBSET ConfiguredNames]
    /\ permissions = build_permissions(config)

NoPermInit ==
    /\ config = [github_admins |-> {}, github_writers |-> {}, github_readers |-> {}]
    /\ permissions = build_permissions(config)

ToolInit ==
    /\ mcp_sessions = << >>
    /\ acquired = 0
    /\ dbCalls = 0

ExtInit ==
    /\ pool_lock = 0
    /\ pools = 0
    /\ used = 0
    /\ sessions = << >>
    /\ now = 0
    /\ writes = << >>

TxnInit ==
    /\ ExtInit
    /\ active_transactions = << >>
    /\ txns = << >>
    /\ pool = "unset"
    /\ tasks = << >>
    /\ ncalls = 0
    /\ shutdown = "stopped"

(***************************************************************************)
(* The permission evaluator on its own: a configuration, a caller and a    *)
(* statement are drawn, then can_execute_query is applied.                 *)
(***************************************************************************)
CanExecuteQuery ==
    /\ req.op = "can_execute_query"
    /\ res = Pending
    /\ res' = can_execute_query(permissions, req.user, req.sql)
    /\ UNCHANGED <<req, permVars, toolVars, txnVars>>

InitPerm ==
    /\ PermInit /\ ToolInit /\ TxnInit
    /\ req \in [op : {"can_execute_query"}, user : Usernames, sql : Statements]
    /\ res = Pending

NextPerm == CanExecuteQuery
SpecPerm == InitPerm /\ [][NextPerm]_vars

(***************************************************************************)
(* The SQL safety validator on its own                                     *)
(***************************************************************************)
ValidateSqlQuery ==
    /\ req.op = "validate_sql_query"
    /\ res = Pending
    /\ res' = validate_sql_query(req.sql)
    /\ UNCHANGED <<req, permVars, toolVars, txnVars>>

InitValidate ==
    /\ NoPermInit /\ ToolInit /\ TxnInit
    /\ req \in [op : {"validate_sql_query"}, sql : SqlInputs]
    /\ res = Pending

NextValidate == ValidateSqlQuery
SpecValidate == InitValidate /\ [][NextValidate]_vars

(***************************************************************************)
(* C1..C3: the permission evaluator and the validator                      *)
(***************************************************************************)
ConfiguredUsers ==
    config.github_admins \cup config.github_writers \cup config.github_readers

Evaluated(op) == req.op = op /\ res # Pending

\* C1: a username that is in none of the configured admin/writer/reader
\* lists is denied by can_execute_query for every statement, whatever its
\* classification.
C1_UnlistedUserDenied ==
    (Evaluated("can_execute_query") /\ req.user \notin ConfiguredUsers)
        => ~res.allowed

\* an unlisted caller (differing from a configured reader only in case)
\* was denied a statement classified read
C1_Witness ==
    /\ Evaluated("can_execute_query")
    /\ req.user = "Alice"
    /\ "alice" \in config.github_readers
    /\ req.user \notin ConfiguredUsers
    /\ get_operation_type(req.sql) = "read"
    /\ ~res.allowed

\* the capability a statement class requires
HoldsRequiredCapability(perm, class) ==
    CASE class = "ddl" -> perm.can_admin
      [] class = "write" -> perm.can_write
      [] class = "read" -> perm.can_read
      [] class \in {"procedure", "transaction"} -> perm.can_write \/ perm.can_admin
      [] OTHER -> TRUE

\* C2: can_execute_query allows a statement only if the caller holds the
\* capability its class requires (admin for ddl, writer for write, reader for
\* read, writer or admin for procedure and transaction).
C2_AllowedOnlyWithCapability ==
    (Evaluated("can_execute_query") /\ res.allowed)
        => /\ req.user \in DOMAIN permissions
           /\ HoldsRequiredCapability(permissions[req.user],
                                      get_operation_type(req.sql))

MatchesDenyList(text) ==
    \E i \in 1..Len(DANGEROUS_SQL_PATTERNS) : re_search(DANGEROUS_SQL_PATTERNS[i], text)

Rejected == ~res.is_valid /\ res.operation_type = NoValue

\* C3 as stated: every SQL string that matches a deny-list pattern anywhere
\* in its text is rejected by validate_sql_query, with no operation type.
C3_DenyListMatchRejected ==
    (Evaluated("validate_sql_query") /\ MatchesDenyList(req.sql)) => Rejected

\* C3 amended: every SQL string whose text, with leading and trailing
\* whitespace removed, matches a deny-list pattern is rejected by
\* validate_sql_query, with no operation type.
C3_TrimmedDenyListMatchRejected ==
    (Evaluated("validate_sql_query") /\ MatchesDenyList(strip(req.sql))) => Rejected

\* a statement with an allowed first keyword that chains into DROP was rejected
C3_Witness ==
    /\ Evaluated("validate_sql_query")
    /\ req.sql = "  SELECT 1; DROP TABLE t\n"
    /\ MatchesDenyList(strip(req.sql))
    /\ get_operation_type(req.sql) = "read"
    /\ Rejected

(***************************************************************************)
(* src/src/models.py, src/src/tools: the query tools                       *)
(***************************************************************************)
create_success_response(message) == [isError |-> FALSE, text |-> message]
create_error_response(message) == [isError |-> TRUE, text |-> message]

BASIC_TOOLS == {"list_tables", "query_database", "describe_table"}
WRITE_TOOLS == {"execute_database"}
ADVANCED_TOOLS == {"manage_stored_procedure", "execute_stored_procedure",
                   "manage_function", "manage_trigger", "manage_index",
                   "execute_complex_query"}
TRANSACTION_TOOLS == {"manage_transaction", "get_transaction_status"}

\* registration that does not look at the caller's write access
register_all_tools_ungated(login) ==
    BASIC_TOOLS \cup WRITE_TOOLS \cup ADVANCED_TOOLS \cup TRANSACTION_TOOLS

\* the tools registered on the FastMCP instance of a caller
register_all_tools(login) ==
    IF is_write_access_allowed(login)
    THEN BASIC_TOOLS \cup WRITE_TOOLS \cup ADVANCED_TOOLS \cup TRANSACTION_TOOLS
    ELSE BASIC_TOOLS

\* What the database layer does with one execute_query call: "ok",
\* "acquire_fails" (no pool or no connection) or "execute_fails".
DbOutcomes == {"ok", "acquire_fails", "execute_fails"}

\* execute_query: one connection leased for the call, one statement sent on it
execute_query(sql, db) ==
    [success |-> db = "ok",
     acquires |-> IF db = "acquire_fails" THEN 0 ELSE 1,
     statements |-> IF db = "acquire_fails" THEN 0 ELSE 1]

NoDatabaseCall(response) == [response |-> response, acquires |-> 0, statements |-> 0]

\* with_database(operation) around one execute_query
with_database(sql, db, what) ==
    LET result == execute_query(sql, db)
    IN  [response |-> IF result.success
                      THEN create_success_response(what)
                      ELSE create_error_response(what \o " failed"),
         acquires |-> result.acquires,
         statements |-> result.statements]

query_database(sql, db) ==
    LET validation == validate_sql_query(sql)
    IN  IF ~validation.is_valid
        THEN NoDatabaseCall(create_error_response("Invalid SQL query"))
        ELSE IF is_write_operation(sql)
        THEN NoDatabaseCall(create_error_response(
                 "Write operations are not allowed with this tool."))
        ELSE with_database(sql, db, "Query execution")

execute_database(sql, params_valid, db) ==
    LET validation == validate_sql_query(sql)
    IN  IF ~validation.is_valid
        THEN NoDatabaseCall(create_error_response("Invalid SQL query"))
        ELSE IF ~params_valid
        THEN NoDatabaseCall(create_error_response("Invalid parameters"))
        ELSE with_database(sql, db, "Write operation")

Logins == {"vedantparmar12", "VedantParmar12", "dev_user"}
MaxToolCalls == 2

ToolStatements == {
    "SELECT * FROM t",
    "DELETE FROM t",
    "DROP TABLE t",
    "CALL p()",
    "BEGIN",
    "SET x = 1",
    "WITH c AS (SELECT 1) SELECT * FROM c",
    "",
    "SELECT 1; DROP TABLE t",
    "SELECT * FROM mysql.user"
}

\* POST /mcp: the first request of a login creates its FastMCP instance
McpEndpoint ==
    \E login \in Logins :
        /\ login \notin DOMAIN mcp_sessions
        /\ mcp_sessions' = [l \in DOMAIN mcp_sessions \cup {login} |->
                               IF l = login THEN register_all_tools(login)
                               ELSE mcp_sessions[l]]
        /\ UNCHANGED <<req, res, acquired, dbCalls, permVars, txnVars>>

\* a tool call arrives on the FastMCP instance of its caller
ReceiveToolCall ==
    \E login \in DOMAIN mcp_sessions, tool \in {"query_database", "execute_database"},
       sql \in ToolStatements, params_valid \in BOOLEAN :
        /\ res # Pending
        /\ req.id < MaxToolCalls
        /\ req' = [op |-> tool, user |-> login, sql |-> sql,
                   params_valid |-> params_valid, id |-> req.id + 1]
        /\ res' = Pending
        /\ UNCHANGED <<mcp_sessions, acquired, dbCalls, permVars, txnVars>>

\* validate_sql_query and the two tools on the statements of the tool calls
Validation == [sql \in ToolStatements |-> validate_sql_query(sql)]
QueryDatabase ==
    [sql \in ToolStatements |-> [db \in DbOutcomes |-> query_database(sql, db)]]
ExecuteDatabase ==
    [sql \in ToolStatements |->
        [params_valid \in BOOLEAN |->
            [db \in DbOutcomes |-> execute_database(sql, params_valid, db)]]]

\* the call is dispatched: a tool that was not registered on the caller's
\* instance cannot be run
ToolCall ==
    \E db \in DbOutcomes :
        LET out == IF req.op \notin mcp_sessions[req.user]
                   THEN NoDatabaseCall(create_error_response("Unknown tool"))
                   ELSE IF req.op = "query_database" THEN QueryDatabase[req.sql][db]
                   ELSE ExecuteDatabase[req.sql][req.params_valid][db]
        IN  /\ req.op \in {"query_database", "execute_database"}
            /\ res = Pending
            /\ res' = out.response
            /\ acquired' = acquired + out.acquires
            /\ dbCalls' = dbCalls + out.statements
            /\ UNCHANGED <<req, mcp_sessions, permVars, txnVars>>

InitTools ==
    /\ NoPermInit /\ ToolInit /\ TxnInit
    /\ req = [op |-> "none", user |-> NoValue, sql |-> "", params_valid |-> TRUE,
              id |-> 0]
    /\ res = create_success_response("ready")

NextTools == McpEndpoint \/ ReceiveToolCall \/ ToolCall
SpecTools == InitTools /\ [][NextTools]_vars

\* the caller lacks the capability the statement's class requires: the
\* statement needs privilege and the caller has no write access
LacksCapability(login, sql) ==
    /\ Validation[sql].requires_privilege
    /\ ~is_write_access_allowed(login)

IsToolCallStep ==
    /\ req.op \in {"query_database", "execute_database"}
    /\ res = Pending
    /\ res' # Pending

session_id == "default"

PoolMaxSize == 5
MaxTasks == 2
MaxCalls == 3
SavepointNames == {"", "sp1", "sp2"}

\* a TransactionManager that has just acquired a connection
NewTransaction ==
    [closed |-> FALSE,        \* conn.closed
     leased |-> TRUE,         \* acquired from the pool and not released to it
     db |-> "idle",           \* the database transaction on the connection
     commits |-> 0,           \* COMMIT statements sent on the connection
     rollbacks |-> 0,         \* ROLLBACK statements sent on the connection
     cleanup |-> FALSE,       \* handled by cleanup_transactions
     savepoints |-> << >>,    \* TransactionManager.savepoints
     live |-> {}]             \* the savepoints the database holds for it

IdleTask == [pc |-> "idle", action |-> NoValue, name |-> "", txn |-> 0,
             result |-> NoValue]

Leased == {i \in DOMAIN txns : txns[i].leased}

\* the effect of a statement that the database carried out
Committed(tx) == IF tx.db = "open" THEN [tx EXCEPT !.db = "committed"] ELSE tx
RolledBack(tx) == IF tx.db = "open" THEN [tx EXCEPT !.db = "rolledback"] ELSE tx

\* del _active_transactions[session_id]
Deleted(active) == [k \in DOMAIN active \ {session_id} |-> active[k]]

\* `session_id in _active_transactions` of begin without the check
begin_rejected_never(active) == FALSE

\* `session_id in _active_transactions` of begin (transaction_tools.py:36)
begin_rejected(active) == session_id \in DOMAIN active

\* the `session_id not in _active_transactions` check that commit, rollback,
\* savepoint and release_savepoint share, with a fallback to the transaction
\* created last when none is recorded
lookup_transaction_stale(active, all) ==
    IF session_id \in DOMAIN active THEN active[session_id] ELSE Len(all)

\* `if session_id not in _active_transactions: return create_error_response(...)`
\* and `transaction = _active_transactions[session_id]`: the recorded
\* transaction, or 0 when the "no active transaction" error is returned
lookup_transaction(active, all) ==
    IF session_id \in DOMAIN active THEN active[session_id] ELSE 0

StartCall(t, action, name) ==
    /\ shutdown = "running"
    /\ tasks[t].pc = "idle"
    /\ ncalls < MaxCalls
    /\ ncalls' = ncalls + 1

Return(t, action, name, result) ==
    tasks' = [tasks EXCEPT ![t] = [@ EXCEPT !.pc = "idle", !.action = action,
                                             !.name = name, !.result = result]]

Goto(t, pc, txn) ==
    tasks' = [tasks EXCEPT ![t] = [@ EXCEPT !.pc = pc, !.txn = txn]]

\* manage_transaction(begin) up to the first await of __aenter__
BeginCheck ==
    \E t \in DOMAIN tasks :
        /\ StartCall(t, "begin", "")
        /\ IF begin_rejected(active_transactions)
           THEN Return(t, "begin", "", "already_active")
           ELSE tasks' = [tasks EXCEPT ![t] = [pc |-> "acquiring", action |-> "begin",
                                               name |-> "", txn |-> 0, result |-> NoValue]]
        /\ UNCHANGED <<active_transactions, txns, pool, shutdown, others>>

\* The except clause of manage_transaction for a failed begin
\* (transaction_tools.py:165-177): it cleans up the transaction that is
\* recorded for the session key at that moment.
BeginFailed(t, txns1) ==
    IF session_id \in DOMAIN active_transactions
    THEN LET cur == active_transactions[session_id]
         IN  IF ~txns1[cur].closed
             THEN /\ txns' = [txns1 EXCEPT ![cur].rollbacks = @ + 1]
                  /\ Goto(t, "begin_except_sent", cur)
                  /\ UNCHANGED active_transactions
             ELSE /\ txns' = txns1
                  /\ active_transactions' = Deleted(active_transactions)
                  /\ Return(t, "begin", "", "failed")
    ELSE /\ txns' = txns1
         /\ Return(t, "begin", "", "failed")
         /\ UNCHANGED active_transactions

\* __aenter__: get_pool() and pool.acquire() return or raise; BEGIN is sent
BeginAcquire ==
    \E t \in DOMAIN tasks :
        /\ tasks[t].pc = "acquiring"
        /\ \E outcome \in {"ok", "no_pool", "no_connection"} :
            CASE outcome = "ok" ->
                   /\ Cardinality(Leased) < PoolMaxSize
                   /\ pool' = "open"
                   /\ txns' = Append(txns, NewTransaction)
                   /\ Goto(t, "begin_sent", Len(txns) + 1)
                   /\ UNCHANGED active_transactions
              [] outcome = "no_pool" ->
                   /\ pool = "unset"
                   /\ UNCHANGED pool
                   /\ BeginFailed(t, txns)
              [] outcome = "no_connection" ->
                   /\ pool' = "open"
                   /\ BeginFailed(t, txns)
        /\ UNCHANGED <<ncalls, shutdown, others>>

\* conn.begin() returns or raises; on success the transaction is recorded
BeginReply ==
    \E t \in DOMAIN tasks :
        /\ tasks[t].pc = "begin_sent"
        /\ \E ok \in BOOLEAN :
            IF ok
            THEN /\ txns' = [txns EXCEPT ![tasks[t].txn].db = "open"]
                 /\ active_transactions' =
                        [k \in DOMAIN active_transactions \cup {session_id} |-> tasks[t].txn]
                 /\ Return(t, "begin", "", "started")
            ELSE BeginFailed(t, txns)
        /\ UNCHANGED <<pool, ncalls, shutdown, others>>

\* the ROLLBACK of the except clause returns or raises; __aexit__ closes the
\* connection; the record is deleted unless something raised (bare except)
BeginExceptReply ==
    \E t \in DOMAIN tasks :
        /\ tasks[t].pc = "begin_except_sent"
        /\ \E ok \in BOOLEAN :
            LET cur == tasks[t].txn
                tx == IF ok THEN RolledBack(txns[cur]) ELSE txns[cur]
            IN  /\ txns' = [txns EXCEPT ![cur] = [tx EXCEPT !.closed = TRUE]]
                /\ active_transactions' =
                       IF ok THEN Deleted(active_transactions) ELSE active_transactions
                /\ Return(t, "begin", "", "failed")
        /\ UNCHANGED <<pool, ncalls, shutdown, others>>

\* `del _active_transactions[session_id]` at the end of commit and rollback:
\* a KeyError goes to the except clause, whose own del raises again and is
\* swallowed, and the call reports the failure
DeleteAndReturn(t, result) ==
    IF session_id \in DOMAIN active_transactions
    THEN /\ active_transactions' = Deleted(active_transactions)
         /\ tasks' = [tasks EXCEPT ![t] = [@ EXCEPT !.pc = "idle", !.result = result]]
    ELSE /\ UNCHANGED active_transactions
         /\ tasks' = [tasks EXCEPT ![t] = [@ EXCEPT !.pc = "idle", !.result = "failed"]]

\* the call takes `transaction = _active_transactions[session_id]`
Enter(t, action, name, pc) ==
    tasks' = [tasks EXCEPT ![t] = [pc |-> pc, action |-> action, name |-> name,
                                   txn |-> lookup_transaction(active_transactions, txns),
                                   result |-> NoValue]]

\* manage_transaction(commit) up to `await transaction.conn.commit()`
CommitStart ==
    \E t \in DOMAIN tasks :
        /\ StartCall(t, "commit", "")
        /\ IF lookup_transaction(active_transactions, txns) = 0
           THEN /\ Return(t, "commit", "", "no_active")
                /\ UNCHANGED <<active_transactions, txns>>
           ELSE LET cur == lookup_transaction(active_transactions, txns)
                IN  IF ~txns[cur].closed
                    THEN /\ txns' = [txns EXCEPT ![cur].commits = @ + 1]
                         /\ Enter(t, "commit", "", "commit_sent")
                         /\ UNCHANGED active_transactions
                    ELSE \* nothing to commit, __aexit__ does nothing
                         /\ active_transactions' = Deleted(active_transactions)
                         /\ tasks' = [tasks EXCEPT ![t] =
                                [pc |-> "idle", action |-> "commit", name |-> "",
                                 txn |-> cur, result |-> "committed"]]
                         /\ UNCHANGED txns
        /\ UNCHANGED <<pool, shutdown, others>>

\* conn.commit() returns: __aexit__(None, None, None) commits again; or it
\* raises: the except clause calls __aexit__(type(e), e, None), which rolls back
CommitReply ==
    \E t \in DOMAIN tasks, ok \in BOOLEAN :
        LET cur == tasks[t].txn
            tx == IF ok THEN Committed(txns[cur]) ELSE txns[cur]
        IN  /\ tasks[t].pc = "commit_sent"
            /\ IF ~tx.closed
               THEN /\ txns' = [txns EXCEPT ![cur] =
                           IF ok THEN [tx EXCEPT !.commits = @ + 1]
                           ELSE [tx EXCEPT !.rollbacks = @ + 1]]
                    /\ Goto(t, IF ok THEN "exit_commit_sent" ELSE "except_rollback_sent",
                            cur)
                    /\ UNCHANGED active_transactions
               ELSE /\ txns' = [txns EXCEPT ![cur] = tx]
                    /\ IF ok THEN DeleteAndReturn(t, "committed")
                       ELSE /\ active_transactions' = Deleted(active_transactions)
                            /\ tasks' = [tasks EXCEPT ![t] =
                                   [@ EXCEPT !.pc = "idle", !.result = "failed"]]
            /\ UNCHANGED <<pool, ncalls, shutdown, others>>

\* the COMMIT of __aexit__ returns or raises; the connection is closed; the
\* record is deleted on both paths
ExitCommitReply ==
    \E t \in DOMAIN tasks, ok \in BOOLEAN :
        LET cur == tasks[t].txn
            tx == IF ok THEN Committed(txns[cur]) ELSE txns[cur]
        IN  /\ tasks[t].pc = "exit_commit_sent"
            /\ txns' = [txns EXCEPT ![cur] = [tx EXCEPT !.closed = TRUE]]
            /\ IF ok THEN DeleteAndReturn(t, "committed")
               ELSE /\ active_transactions' = Deleted(active_transactions)
                    /\ tasks' = [tasks EXCEPT ![t] =
                           [@ EXCEPT !.pc = "idle", !.result = "failed"]]
            /\ UNCHANGED <<pool, ncalls, shutdown, others>>

\* the ROLLBACK of the except clause returns or raises; the connection is
\* closed; if it raised, the del after it is skipped (bare except)
ExceptRollbackReply ==
    \E t \in DOMAIN tasks, ok \in BOOLEAN :
        LET cur == tasks[t].txn
            tx == IF ok THEN RolledBack(txns[cur]) ELSE txns[cur]
        IN  /\ tasks[t].pc = "except_rollback_sent"
            /\ txns' = [txns EXCEPT ![cur] = [tx EXCEPT !.closed = TRUE]]
            /\ active_transactions' =
                   IF ok THEN Deleted(active_transactions) ELSE active_transactions
            /\ tasks' = [tasks EXCEPT ![t] = [@ EXCEPT !.pc = "idle", !.result = "failed"]]
            /\ UNCHANGED <<pool, ncalls, shutdown, others>>

\* manage_transaction(rollback) up to `await transaction.conn.rollback()`
RollbackStart ==
    \E t \in DOMAIN tasks :
        /\ StartCall(t, "rollback", "")
        /\ IF lookup_transaction(active_transactions, txns) = 0
           THEN /\ Return(t, "rollback", "", "no_active")
                /\ UNCHANGED <<active_transactions, txns>>
           ELSE LET cur == lookup_transaction(active_transactions, txns)
                IN  IF ~txns[cur].closed
                    THEN /\ txns' = [txns EXCEPT ![cur].rollbacks = @ + 1]
                         /\ Enter(t, "rollback", "", "rollback_sent")
                         /\ UNCHANGED active_transactions
                    ELSE /\ active_transactions' = Deleted(active_transactions)
                         /\ tasks' = [tasks EXCEPT ![t] =
                                [pc |-> "idle", action |-> "rollback", name |-> "",
                                 txn |-> cur, result |-> "rolled_back"]]
                         /\ UNCHANGED txns
        /\ UNCHANGED <<pool, shutdown, others>>

\* conn.rollback() returns: __aexit__(Exception("Rollback"), None, None) rolls
\* back again; or it raises: the except clause only deletes the record
RollbackReply ==
    \E t \in DOMAIN tasks, ok \in BOOLEAN :
        LET cur == tasks[t].txn
            tx == IF ok THEN RolledBack(txns[cur]) ELSE txns[cur]
        IN  /\ tasks[t].pc = "rollback_sent"
            /\ IF ok /\ ~tx.closed
               THEN /\ txns' = [txns EXCEPT ![cur] = [tx EXCEPT !.rollbacks = @ + 1]]
                    /\ Goto(t, "exit_rollback_sent", cur)
                    /\ UNCHANGED active_transactions
               ELSE /\ txns' = [txns EXCEPT ![cur] = tx]
                    /\ IF ok THEN DeleteAndReturn(t, "rolled_back")
                       ELSE /\ active_transactions' = Deleted(active_transactions)
                            /\ tasks' = [tasks EXCEPT ![t] =
                                   [@ EXCEPT !.pc = "idle", !.result = "failed"]]
            /\ UNCHANGED <<pool, ncalls, shutdown, others>>

\* the ROLLBACK of __aexit__ returns or raises; the connection is closed; the
\* record is deleted on both paths
ExitRollbackReply ==
    \E t \in DOMAIN tasks, ok \in BOOLEAN :
        LET cur == tasks[t].txn
            tx == IF ok THEN RolledBack(txns[cur]) ELSE txns[cur]
        IN  /\ tasks[t].pc = "exit_rollback_sent"
            /\ txns' = [txns EXCEPT ![cur] = [tx EXCEPT !.closed = TRUE]]
            /\ IF ok THEN DeleteAndReturn(t, "rolled_back")
               ELSE /\ active_transactions' = Deleted(active_transactions)
                    /\ tasks' = [tasks EXCEPT ![t] =
                           [@ EXCEPT !.pc = "idle", !.result = "failed"]]
            /\ UNCHANGED <<pool, ncalls, shutdown, others>>

\* list.remove(name): the first occurrence is removed
RECURSIVE Remove(_, _)
Remove(list, name) ==
    IF list = << >> THEN << >>
    ELSE IF Head(list) = name THEN Tail(list)
    ELSE <<Head(list)>> \o Remove(Tail(list), name)

InList(list, name) == \E i \in DOMAIN list : list[i] = name

\* manage_transaction(savepoint) up to `await cursor.execute("SAVEPOINT ...")`
SavepointStart ==
    \E t \in DOMAIN tasks, name \in SavepointNames :
        /\ StartCall(t, "savepoint", name)
        /\ IF lookup_transaction(active_transactions, txns) = 0
           THEN Return(t, "savepoint", name, "no_active")
           ELSE IF name = ""
           THEN Return(t, "savepoint", name, "name_required")
           ELSE IF txns[lookup_transaction(active_transactions, txns)].closed
           THEN Return(t, "savepoint", name, "failed")
           ELSE Enter(t, "savepoint", name, "savepoint_sent")
        /\ UNCHANGED <<active_transactions, txns, pool, shutdown, others>>

\* SAVEPOINT returns, and the name is appended, or it raises; in the
\* database a savepoint of the same name is replaced
SavepointReply ==
    \E t \in DOMAIN tasks, ok \in BOOLEAN :
        LET cur == tasks[t].txn
        IN  /\ tasks[t].pc = "savepoint_sent"
            /\ txns' = IF ok
                       THEN [txns EXCEPT ![cur].savepoints = Append(@, tasks[t].name),
                                         ![cur].live = @ \cup {tasks[t].name}]
                       ELSE txns
            /\ tasks' = [tasks EXCEPT ![t] = [@ EXCEPT !.pc = "idle",
                            !.result = IF ok THEN "savepoint_created" ELSE "failed"]]
            /\ UNCHANGED <<active_transactions, pool, ncalls, shutdown, others>>

\* manage_transaction(release_savepoint) up to
\* `await cursor.execute("RELEASE SAVEPOINT ...")`
ReleaseStart ==
    \E t \in DOMAIN tasks, name \in SavepointNames :
        /\ StartCall(t, "release_savepoint", name)
        /\ IF lookup_transaction(active_transactions, txns) = 0
           THEN Return(t, "release_savepoint", name, "no_active")
           ELSE IF name = ""
           THEN Return(t, "release_savepoint", name, "name_required")
           ELSE IF ~InList(txns[lookup_transaction(active_transactions, txns)].savepoints, name)
           THEN Return(t, "release_savepoint", name, "savepoint_not_found")
           ELSE IF txns[lookup_transaction(active_transactions, txns)].closed
           THEN Return(t, "release_savepoint", name, "failed")
           ELSE Enter(t, "release_savepoint", name, "release_sent")
        /\ UNCHANGED <<active_transactions, txns, pool, shutdown, others>>

\* RELEASE SAVEPOINT returns, and the name is removed (ValueError if it is no
\* longer in the list), or it raises, as it does when the database holds no
\* savepoint of that name
ReleaseReply ==
    \E t \in DOMAIN tasks, ok \in BOOLEAN :
        LET cur == tasks[t].txn
            removed == ok /\ InList(txns[cur].savepoints, tasks[t].name)
        IN  /\ tasks[t].pc = "release_sent"
            /\ ok => tasks[t].name \in txns[cur].live
            /\ txns' = IF ok
                       THEN [txns EXCEPT ![cur].savepoints =
                                             IF removed THEN Remove(@, tasks[t].name) ELSE @,
                                         ![cur].live = @ \ {tasks[t].name}]
                       ELSE txns
            /\ tasks' = [tasks EXCEPT ![t] = [@ EXCEPT !.pc = "idle",
                            !.result = IF removed THEN "savepoint_released" ELSE "failed"]]
            /\ UNCHANGED <<active_transactions, pool, ncalls, shutdown, others>>

\* lifespan shutdown: cleanup_transactions() up to the ROLLBACK of
\* __aexit__(Exception("Cleanup"), None, None); requests are no longer served
CleanupStart ==
    /\ shutdown = "running"
    /\ \A t \in DOMAIN tasks : tasks[t].pc = "idle"
    /\ IF session_id \in DOMAIN active_transactions
       THEN LET cur == active_transactions[session_id]
            IN  IF ~txns[cur].closed
                THEN /\ txns' = [txns EXCEPT ![cur] =
                            [@ EXCEPT !.rollbacks = @ + 1, !.cleanup = TRUE]]
                     /\ shutdown' = "cleanup_sent"
                     /\ UNCHANGED active_transactions
                ELSE /\ txns' = [txns EXCEPT ![cur].cleanup = TRUE]
                     /\ active_transactions' = << >>
                     /\ shutdown' = "cleaned"
       ELSE /\ active_transactions' = << >>
            /\ shutdown' = "cleaned"
            /\ UNCHANGED txns
    /\ UNCHANGED <<pool, tasks, ncalls, others>>

\* the ROLLBACK of cleanup returns or raises (logged); the connection is
\* closed; _active_transactions.clear()
CleanupReply ==
    \E ok \in BOOLEAN :
        LET cur == active_transactions[session_id]
            tx == IF ok THEN RolledBack(txns[cur]) ELSE txns[cur]
        IN  /\ shutdown = "cleanup_sent"
            /\ txns' = [txns EXCEPT ![cur] = [tx EXCEPT !.closed = TRUE]]
            /\ active_transactions' = << >>
            /\ shutdown' = "cleaned"
            /\ UNCHANGED <<pool, tasks, ncalls, others>>

\* close_pool(): _pool.close() when a pool exists
ClosePool ==
    /\ shutdown = "cleaned"
    /\ IF pool = "open"
       THEN pool' = "closing" /\ shutdown' = "closing"
       ELSE pool' = pool /\ shutdown' = "no_pool"
    /\ UNCHANGED <<active_transactions, txns, tasks, ncalls, others>>

\* _pool.wait_closed() returns once every leased connection has been
\* released; _pool = None
PoolClosed ==
    /\ shutdown = "closing"
    /\ Leased = {}
    /\ pool' = "unset"
    /\ shutdown' = "pool_closed"
    /\ UNCHANGED <<active_transactions, txns, tasks, ncalls, others>>

TasksInit(n) ==
    /\ ExtInit
    /\ active_transactions = << >>
    /\ txns = << >>
    /\ pool = "unset"
    /\ tasks = [t \in 1..n |-> IdleTask]
    /\ ncalls = 0
    /\ shutdown = "running"

(***************************************************************************)
(* Concurrent manage_transaction(begin) calls only                         *)
(***************************************************************************)
InitBegin ==
    /\ NoPermInit /\ ToolInit /\ TasksInit(MaxTasks)
    /\ req = NoRequest
    /\ res = Pending

NextBegin == BeginCheck \/ BeginAcquire \/ BeginReply \/ BeginExceptReply

SpecBegin == InitBegin /\ [][NextBegin]_vars

(***************************************************************************)
(* The transaction manager: every action of manage_transaction and the    *)
(* shutdown sequence, with one caller at a time (SpecTxnSeq) and with     *)
(* concurrent callers (SpecTxn)                                           *)
(***************************************************************************)
InitTxnSeq ==
    /\ NoPermInit /\ ToolInit /\ TasksInit(1)
    /\ req = NoRequest
    /\ res = Pending

InitTxn ==
    /\ NoPermInit /\ ToolInit /\ TasksInit(MaxTasks)
    /\ req = NoRequest
    /\ res = Pending

\* with a single caller no record can appear between the membership check of
\* begin and its failure, so BeginExceptReply has nothing to do
NextTxnSeq ==
    \/ BeginCheck \/ BeginAcquire \/ BeginReply
    \/ CommitStart \/ CommitReply \/ ExitCommitReply \/ ExceptRollbackReply
    \/ RollbackStart \/ RollbackReply \/ ExitRollbackReply
    \/ SavepointStart \/ SavepointReply \/ ReleaseStart \/ ReleaseReply
    \/ CleanupStart \/ CleanupReply \/ ClosePool \/ PoolClosed

NextTxn ==
    \/ BeginCheck \/ BeginAcquire \/ BeginReply \/ BeginExceptReply
    \/ CommitStart \/ CommitReply \/ ExitCommitReply \/ ExceptRollbackReply
    \/ RollbackStart \/ RollbackReply \/ ExitRollbackReply
    \/ SavepointStart \/ SavepointReply \/ ReleaseStart \/ ReleaseReply
    \/ CleanupStart \/ CleanupReply \/ ClosePool \/ PoolClosed

SpecTxnSeq == InitTxnSeq /\ [][NextTxnSeq]_vars
SpecTxn == InitTxn /\ [][NextTxn]_vars

(***************************************************************************)
(* C5..C10: the transaction manager                                        *)
(***************************************************************************)
Recorded(i) ==
    session_id \in DOMAIN active_transactions /\ active_transactions[session_id] = i

Returned(t, action, results) ==
    /\ tasks[t].pc = "idle"
    /\ tasks[t].action = action
    /\ tasks[t].result \in results

\* C5: under every interleaving of concurrent manage_transaction(begin)
\* calls, at most one call returns success (the others are told that a
\* transaction is already active), and the connection of a begin call that
\* returned success is the one recorded in the transaction map: none is left
\* held and untracked.
C5_ConcurrentBeginExclusive ==
    /\ Cardinality({i \in DOMAIN txns : txns[i].db # "idle"}) <= 1
    /\ \A i \in DOMAIN txns :
           (txns[i].db = "open" /\ txns[i].leased /\ ~txns[i].closed) => Recorded(i)

\* the transaction has been started and no record, call or cleanup refers to
\* it any more
Ended(i) ==
    /\ txns[i].db # "idle"
    /\ ~Recorded(i)
    /\ \A t \in DOMAIN tasks : tasks[t].pc = "idle"
    /\ shutdown # "cleanup_sent"

TerminalStatements(i) == txns[i].commits + txns[i].rollbacks

\* C6: over the lifetime of every transaction started by begin, exactly one
\* terminal statement (one COMMIT or one ROLLBACK) is sent on its connection,
\* whether it is ended by commit, by rollback or by cleanup at shutdown.
C6_ExactlyOneTerminal ==
    \A i \in DOMAIN txns :
        /\ TerminalStatements(i) <= 1
        /\ Ended(i) => TerminalStatements(i) = 1

\* C7: after manage_transaction(commit) or manage_transaction(rollback) has
\* returned success, the transaction map holds no record for the session key
\* and the connection the transaction held has been returned to the pool.
C7_EndReturnsConnection ==
    \A t \in DOMAIN tasks :
        (Returned(t, "commit", {"committed"}) \/ Returned(t, "rollback", {"rolled_back"}))
            => /\ session_id \notin DOMAIN active_transactions
               /\ ~txns[tasks[t].txn].leased

\* C8: when manage_transaction(commit) or manage_transaction(rollback) fails
\* (the statement or the cleanup after it raised), the call returns an error
\* and the transaction map ends with no record for the session key.
C8_FailedEndClearsRecord ==
    \A t \in DOMAIN tasks :
        (Returned(t, "commit", {"failed"}) \/ Returned(t, "rollback", {"failed"}))
            => session_id \notin DOMAIN active_transactions

PoolCloseCalled == shutdown \in {"closing", "pool_closed", "no_pool"}

\* C9: cleanup_transactions sends a rollback on every transaction tracked at
\* shutdown and leaves the transaction map empty, also when a rollback fails;
\* it completes before the pool is closed, and no connection of a tracked
\* transaction is still leased when the pool closes.
C9_CleanupBeforePoolClose ==
    PoolCloseCalled =>
        /\ active_transactions = << >>
        /\ \A i \in DOMAIN txns :
               txns[i].cleanup => (txns[i].rollbacks >= 1 /\ ~txns[i].leased)

\* a step in which task t starts a begin call
StartsBegin(t) ==
    /\ ncalls' = ncalls + 1
    /\ tasks'[t] # tasks[t]
    /\ tasks'[t].action = "begin"
    /\ tasks'[t].pc \in {"idle", "acquiring"}

\* C10: whenever a transaction record exists for the session key,
\* manage_transaction(begin) returns the "already active" error, acquires no
\* connection and leaves the record, its connection and its savepoint list
\* unchanged.
C10_BeginWhileActiveRejected ==
    [][\A t \in DOMAIN tasks :
          (StartsBegin(t) /\ session_id \in DOMAIN active_transactions)
              => /\ tasks'[t].pc = "idle"
                 /\ tasks'[t].result = "already_active"
                 /\ txns' = txns
                 /\ active_transactions' = active_transactions
                 /\ pool' = pool]_vars

\* begin was rejected while a transaction with a savepoint was active, and
\* that transaction's connection is the only one leased
C10_Witness ==
    \E t \in DOMAIN tasks :
        /\ Returned(t, "begin", {"already_active"})
        /\ session_id \in DOMAIN active_transactions
        /\ txns[active_transactions[session_id]].savepoints = <<"sp1">>
        /\ txns[active_transactions[session_id]].db = "open"
        /\ Leased = {active_transactions[session_id]}

(***************************************************************************)
(* Identifiers: src/src/database/security.py and SecurityValidator of       *)
(* src/main.py                                                              *)
(***************************************************************************)
Digits == "0123456789"

IsLetter(c) == \E i \in 1..26 : At(UpperLetters, i) = c \/ At(LowerLetters, i) = c
IsDigit(c) == \E i \in 1..10 : At(Digits, i) = c

\* the character classes [a-zA-Z_] and [a-zA-Z0-9_]
IsIdentStart(c) == IsLetter(c) \/ c = "_"
IsIdentChar(c) == IsIdentStart(c) \/ IsDigit(c)

\* the whole of s is [a-zA-Z_][a-zA-Z0-9_]*
is_identifier(s) ==
    /\ s # ""
    /\ IsIdentStart(At(s, 1))
    /\ \A i \in 2..Len(s) : IsIdentChar(At(s, i))

\* re.match(r'^[a-zA-Z_][a-zA-Z0-9_]*$', s): $ matches at the end of the
\* string and also just before a newline that ends the string
re_match_identifier(s) ==
    \/ is_identifier(s)
    \/ /\ Len(s) >= 2
       /\ At(s, Len(s)) = "\n"
       /\ is_identifier(SubSeq(s, 1, Len(s) - 1))

\* the backtick character, which a TLA+ string cannot hold: it is written "~"
\* here, and "~" stands for nothing else in the identifiers below
Backtick == "~"

\* identifier.replace(Backtick, '')
RECURSIVE remove_backticks(_)
remove_backticks(s) ==
    IF s = "" THEN ""
    ELSE (IF At(s, 1) = Backtick THEN "" ELSE At(s, 1)) \o remove_backticks(SubSeq(s, 2, Len(s)))

ValueError(message) == [raised |-> TRUE, value |-> NoValue, error |-> message]
Value(v) == [raised |-> FALSE, value |-> v, error |-> NoValue]

sanitize_identifier(identifier) ==
    IF identifier = ""
    THEN ValueError("Identifier cannot be empty")
    ELSE LET stripped == remove_backticks(identifier)
         IN  IF ~re_match_identifier(stripped)
             THEN ValueError("Invalid identifier")
             ELSE Value(stripped)

quote_identifier(identifier) ==
    LET sanitized == sanitize_identifier(identifier)
    IN  IF sanitized.raised THEN sanitized ELSE Value(Backtick \o sanitized.value \o Backtick)

\* SecurityValidator.sanitize_identifier: re.sub(r'[^a-zA-Z0-9_]', '', identifier)
RECURSIVE SecurityValidator_sanitize_identifier(_)
SecurityValidator_sanitize_identifier(identifier) ==
    IF identifier = "" THEN ""
    ELSE (IF IsIdentChar(At(identifier, 1)) THEN At(identifier, 1) ELSE "")
         \o SecurityValidator_sanitize_identifier(SubSeq(identifier, 2, Len(identifier)))

MaxTableNameLength == 64

\* SecurityValidator.validate_table_name
validate_table_name(table_name) ==
    IF table_name = "" THEN FALSE
    ELSE IF ~re_match_identifier(table_name) THEN FALSE
    ELSE IF Len(table_name) > MaxTableNameLength THEN FALSE
    ELSE TRUE

\* identifiers given to the sanitizers: a body between optional leading and
\* trailing characters
IdentifierHeads == {"", Backtick, " "}
IdentifierBodies == {"", "users", "user_profiles", "Table123", "_a1", "1a",
                     "a b", "a-b", "users; DROP TABLE", "sp1"}
IdentifierTails == {"", Backtick, "\n", " ", "\n\n"}
Identifiers == {h \o b \o t : h \in IdentifierHeads, b \in IdentifierBodies,
                              t \in IdentifierTails}

(***************************************************************************)
(* Names that reach SQL text.  A handler either sends a statement built    *)
(* around the name or returns an error before building one.                *)
(***************************************************************************)
Statement(sql, name) == [sent |-> TRUE, sql |-> sql, name |-> name, error |-> NoValue]
NoStatement(error) == [sent |-> FALSE, sql |-> NoValue, name |-> NoValue, error |-> error]

\* manage_transaction(savepoint) in an active transaction, and
\* TransactionManager.create_savepoint
create_savepoint(savepoint_name) ==
    IF savepoint_name = ""
    THEN NoStatement("Savepoint name is required")
    ELSE Statement("SAVEPOINT " \o savepoint_name, savepoint_name)

\* manage_stored_procedure(drop)
drop_procedure(name) ==
    IF name = ""
    THEN NoStatement("Name required for drop")
    ELSE LET quoted == quote_identifier(name)
         IN  IF quoted.raised
             THEN NoStatement(quoted.error)
             ELSE Statement("DROP PROCEDURE IF EXISTS " \o quoted.value,
                            sanitize_identifier(name).value)

\* _select_data with one column of table t
select_data_column(column) ==
    LET col == SecurityValidator_sanitize_identifier(column)
    IN  Statement("SELECT " \o Backtick \o col \o Backtick \o " FROM " \o Backtick
                      \o "t" \o Backtick, col)

NameTools == {"savepoint", "drop_procedure", "select_data_column"}

SanitizeIdentifier ==
    /\ req.op = "sanitize_identifier"
    /\ res = Pending
    /\ res' = sanitize_identifier(req.identifier)
    /\ UNCHANGED <<req, permVars, toolVars, txnVars>>

InterpolateName ==
    /\ req.op = "interpolate"
    /\ res = Pending
    /\ res' = CASE req.tool = "savepoint" -> create_savepoint(req.identifier)
                [] req.tool = "drop_procedure" -> drop_procedure(req.identifier)
                [] req.tool = "select_data_column" -> select_data_column(req.identifier)
    /\ UNCHANGED <<req, permVars, toolVars, txnVars>>

InitIdent ==
    /\ NoPermInit /\ ToolInit /\ TxnInit
    /\ req \in [op : {"sanitize_identifier"}, identifier : Identifiers, tool : {NoValue}]
           \cup [op : {"interpolate"}, identifier : Identifiers, tool : NameTools]
    /\ res = Pending

NextIdent == SanitizeIdentifier \/ InterpolateName
SpecIdent == InitIdent /\ [][NextIdent]_vars

(***************************************************************************)
(* C13..C15: identifiers                                                   *)
(***************************************************************************)
\* C13: every caller-supplied name that is put into SQL text (here a
\* savepoint name, a procedure name and a column name) has passed the
\* identifier sanitizer, so it is non-empty and matches
\* [A-Za-z_][A-Za-z0-9_]*.
C13_InterpolatedNamesSanitized ==
    (Evaluated("interpolate") /\ res.sent) => is_identifier(res.name)

HasBacktick(s) == \E i \in 1..Len(s) : At(s, i) = Backtick
HasForeignCharacter(s) == \E i \in 1..Len(s) : ~IsIdentChar(At(s, i))

\* C14: for every input string (backticks are the subject of C15 and are left
\* out here) sanitize_identifier either fails or returns a non-empty string
\* of characters in [A-Za-z0-9_] that does not start with a digit; it fails
\* on empty input and on every input with a character outside that set, and
\* returns a valid identifier unchanged.
C14_SanitizeIdentifierTotal ==
    (Evaluated("sanitize_identifier") /\ ~HasBacktick(req.identifier))
        => /\ ~res.raised => is_identifier(res.value)
           /\ (req.identifier = "" \/ HasForeignCharacter(req.identifier)) => res.raised
           /\ is_identifier(req.identifier) => res = Value(req.identifier)

\* C15: sanitize_identifier fails for every identifier that contains a
\* backtick.
C15_BacktickRejected ==
    (Evaluated("sanitize_identifier") /\ HasBacktick(req.identifier)) => res.raised

(***************************************************************************)
(* Classification on its own: a statement is drawn as a first keyword in   *)
(* some letter case between leading whitespace and a remainder, then       *)
(* get_operation_type and validate_sql_query are applied to it.            *)
(***************************************************************************)
Keywords ==
    READ_OPERATIONS \cup WRITE_OPERATIONS \cup DDL_OPERATIONS
        \cup PROCEDURE_OPERATIONS \cup TRANSACTION_OPERATIONS
        \cup {"set", "use", "lock", "optimize", "grant", "with", "withdraw",
              "(select", "selects", "select(1)"}

\* the keyword with its first letter in upper case
Capitalized(k) == UpperChar(At(k, 1)) \o SubSeq(k, 2, Len(k))

KeywordLeading == {"", " ", "\n\t"}
KeywordRemainder == {"", " x", "\tx", "\nx y "}

Classify ==
    /\ req.op = "get_operation_type"
    /\ res = Pending
    /\ res' = [operation_type |-> get_operation_type(req.sql),
               validation |-> validate_sql_query(req.sql)]
    /\ UNCHANGED <<req, permVars, toolVars, txnVars>>

InitClassify ==
    /\ NoPermInit /\ ToolInit /\ TxnInit
    /\ \E k \in Keywords, l \in KeywordLeading, r \in KeywordRemainder :
       \E w \in {k, upper(k), Capitalized(k)} :
           req = [op |-> "get_operation_type", keyword |-> k, sql |-> l \o w \o r]
    /\ res = Pending

NextClassify == Classify
SpecClassify == InitClassify /\ [][NextClassify]_vars

(***************************************************************************)
(* C16: classification                                                     *)
(***************************************************************************)
\* the class of each leading keyword
ClassOfKeyword(k) ==
    CASE k \in {"select", "show", "describe", "desc", "explain"} -> "read"
      [] k \in {"insert", "update", "delete", "replace"} -> "write"
      [] k \in {"create", "alter", "drop", "truncate", "rename"} -> "ddl"
      [] k \in {"call", "execute"} -> "procedure"
      [] k \in {"begin", "start", "commit", "rollback", "savepoint"} -> "transaction"
      [] OTHER -> "unknown"

\* C16: the class of a statement is a function of the first
\* whitespace-delimited keyword of the trimmed, lower-cased statement, by the
\* fixed keyword sets, and every other keyword gives unknown, except that
\* validate gives read to an unclassified statement beginning with "with" or
\* "("; letter case and surrounding whitespace do not change the class.
C16_ClassifiedByFirstKeyword ==
    Evaluated("get_operation_type")
        => /\ res.operation_type = ClassOfKeyword(req.keyword)
           /\ res.validation.is_valid
                => res.validation.operation_type =
                       IF /\ ClassOfKeyword(req.keyword) = "unknown"
                          /\ \/ startswith(req.keyword, "with")
                             \/ startswith(req.keyword, "(")
                       THEN "read"
                       ELSE ClassOfKeyword(req.keyword)

\* a statement written "With" after leading whitespace is unknown to
\* get_operation_type and read to validate; its letter case was changed
C16_Witness ==
    /\ Evaluated("get_operation_type")
    /\ req.sql = "\n\tWith x"
    /\ res.operation_type = "unknown"
    /\ res.validation.is_valid
    /\ res.validation.operation_type = "read"

(***************************************************************************)
(* C17: letter case of usernames                                           *)
(***************************************************************************)
SameUpToCase(u, e) == lower(u) = lower(e)

\* C17: allow-list membership is case-insensitive in every capability
\* lookup: a username equal to a configured entry up to letter case gets
\* exactly the capability of that entry, for write access
\* (is_write_access_allowed) and for the role the permission manager
\* resolves, so can_execute_query decides for it as it does for the entry.
C17_CaseInsensitiveMembership ==
    /\ \A u \in Logins, e \in ALLOWED_USERNAMES :
           SameUpToCase(u, e) => is_write_access_allowed(u)
    /\ Evaluated("can_execute_query")
           => \A e \in ConfiguredUsers :
                  SameUpToCase(req.user, e)
                      => res = can_execute_query(permissions, e, req.sql)

(***************************************************************************)
(* C18..C19: query_database                                                *)
(***************************************************************************)
PrivilegedClasses == {"write", "ddl", "procedure", "transaction"}

IsQueryDatabaseStep == IsToolCallStep /\ req.op = "query_database"

\* C18: query_database returns an error envelope and passes nothing to the
\* executor for every statement that validate classifies as write, ddl,
\* procedure or transaction.
C18_QueryDatabaseRejectsPrivileged ==
    [][(IsQueryDatabaseStep
           /\ Validation[req.sql].operation_type \in PrivilegedClasses)
          => (res'.isError /\ acquired' = acquired /\ dbCalls' = dbCalls)]_vars

\* a caller with write access ran query_database("DROP TABLE t"): error
\* envelope, nothing sent to the database
C18_Witness ==
    /\ res # Pending
    /\ req.op = "query_database"
    /\ req.user = "vedantparmar12"
    /\ req.sql = "DROP TABLE t"
    /\ res.isError
    /\ acquired = 0
    /\ dbCalls = 0

\* C19: query_database is read-only: every statement it passes to the
\* executor is classified read, and a statement of any other class, unknown
\* included (e.g. SET), is rejected with an error envelope and nothing is
\* sent to the database.
C19_QueryDatabaseReadOnly ==
    [][(IsQueryDatabaseStep /\ Validation[req.sql].operation_type # "read")
          => (res'.isError /\ acquired' = acquired /\ dbCalls' = dbCalls)]_vars

(***************************************************************************)
(* The table-name-scoped tools of src/main.py: a configuration, a tool, a  *)
(* caller and a table name are drawn, then the handler is applied.         *)
(***************************************************************************)
QueryResult(success, error) == [success |-> success, error |-> error]

\* the capability each tool asks of its caller
TableTools ==
    [select_table_data |-> "can_read", insert_table_data |-> "can_write",
     update_table_data |-> "can_write", delete_table_data |-> "can_write",
     get_table_structure |-> "can_read", create_table_secure |-> "can_admin"]

PermissionError(capability) ==
    CASE capability = "can_read" -> "Read permissions required"
      [] capability = "can_write" -> "Write permissions required"
      [] capability = "can_admin" -> "Admin permissions required"

RECURSIVE Repeat(_, _)
Repeat(c, n) == IF n = 0 THEN "" ELSE c \o Repeat(c, n - 1)

TableNames == {"users", "user_profiles", "", "users; DROP TABLE", "1a", "a b",
               Repeat("a", MaxTableNameLength), Repeat("a", MaxTableNameLength + 1)}

\* the handler of a table-name-scoped tool; query is the outcome of the
\* statement the helper behind it runs
table_tool(perms, tool, user, table, query) ==
    LET user_perm == get_user_permission(perms, user)
    IN  IF user_perm = NoPermission \/ ~user_perm[TableTools[tool]]
        THEN QueryResult(FALSE, PermissionError(TableTools[tool]))
        ELSE IF ~validate_table_name(table)
        THEN QueryResult(FALSE, "Invalid table name")
        ELSE IF query = "ok" THEN QueryResult(TRUE, NoValue)
        ELSE QueryResult(FALSE, "Query failed")

TableToolCall ==
    \E query \in {"ok", "fails"} :
        /\ req.op = "table_tool"
        /\ res = Pending
        /\ res' = table_tool(permissions, req.tool, req.user, req.table, query)
        /\ UNCHANGED <<req, permVars, toolVars, txnVars>>

InitTable ==
    /\ PermInit /\ ToolInit /\ TxnInit
    /\ req \in [op : {"table_tool"}, tool : DOMAIN TableTools, user : Usernames,
                table : TableNames]
    /\ res = Pending

NextTable == TableToolCall
SpecTable == InitTable /\ [][NextTable]_vars

(***************************************************************************)
(* C20: table names are checked before permissions                         *)
(***************************************************************************)
\* C20: in every table-name-scoped tool call the validity check of the table
\* name runs before permission evaluation: a call with an invalid table name
\* is rejected with the invalid-table-name error for every caller, a caller
\* without permissions included.
C20_TableNameCheckedFirst ==
    (Evaluated("table_tool") /\ ~validate_table_name(req.table))
        => (~res.success /\ res.error = "Invalid table name")

(***************************************************************************)
(* The error formatter: format_database_error of                           *)
(* src/src/database/security.py.  An error is the text str(error) gives.    *)
(***************************************************************************)
\* `sub in s`
contains(s, sub) ==
    \E i \in 1..(Len(s) - Len(sub) + 1) : SubSeq(s, i, i + Len(sub) - 1) = sub

\* s from its i-th character on
From(s, i) == SubSeq(s, i, Len(s))

\* the length of the longest run of characters satisfying Test that starts
\* at the i-th character of s
Span(s, i, Test(_)) ==
    IF i > Len(s) THEN 0
    ELSE CHOOSE n \in 0..(Len(s) - i + 1) :
            /\ \A k \in i..(i + n - 1) : Test(At(s, k))
            /\ i + n > Len(s) \/ ~Test(At(s, i + n))

NotQuote(c) == c # "'"
NotAt(c) == c # "@"
IsQuote(c) == c \in {"\"", "'"}
NotQuoteOrSpace(c) == ~IsQuote(c) /\ ~IsSpace(c)

\* re.search(r"table '([^']+)' doesn't exist", s): the positions where the
\* pattern matches
TableMatches(s) ==
    {i \in 1..Len(s) :
        /\ startswith(From(s, i), "table '")
        /\ Span(s, i + 7, NotQuote) >= 1
        /\ startswith(From(s, i + 7 + Span(s, i + 7, NotQuote)), "' doesn't exist")}

\* match.group(1) of the leftmost match
TableGroup(s) ==
    LET i == CHOOSE m \in TableMatches(s) : \A n \in TableMatches(s) : m <= n
    IN  SubSeq(s, i + 7, i + 6 + Span(s, i + 7, NotQuote))

\* the length of the match of password["\']?\s*[:=]\s*["\']?[^"\'\s]+ at the
\* start of s (re.IGNORECASE), or 0
PasswordMatch(s) ==
    LET p1 == 9
        p2 == p1 + (IF p1 <= Len(s) /\ IsQuote(At(s, p1)) THEN 1 ELSE 0)
        p3 == p2 + Span(s, p2, IsSpace)
        p4 == p3 + 1
        p5 == p4 + Span(s, p4, IsSpace)
        p6 == p5 + (IF p5 <= Len(s) /\ IsQuote(At(s, p5)) THEN 1 ELSE 0)
        n == Span(s, p6, NotQuoteOrSpace)
    IN  IF /\ startswith(lower(s), "password")
           /\ p3 <= Len(s)
           /\ At(s, p3) \in {":", "="}
           /\ n >= 1
        THEN p6 + n - 1
        ELSE 0

\* re.sub(r'password["\']?\s*[:=]\s*["\']?[^"\'\s]+', 'password=***', s,
\*        flags=re.IGNORECASE)
RECURSIVE redact_password(_)
redact_password(s) ==
    IF s = "" THEN ""
    ELSE IF PasswordMatch(s) > 0
    THEN "password=***" \o redact_password(From(s, PasswordMatch(s) + 1))
    ELSE At(s, 1) \o redact_password(From(s, 2))

\* re.sub(r'mysql://[^@]+@', 'mysql://***@', s)
RECURSIVE redact_connection_string(_)
redact_connection_string(s) ==
    IF s = "" THEN ""
    ELSE IF /\ startswith(s, "mysql://")
            /\ Span(s, 9, NotAt) >= 1
            /\ 9 + Span(s, 9, NotAt) <= Len(s)
    THEN "mysql://***@" \o redact_connection_string(From(s, 10 + Span(s, 9, NotAt)))
    ELSE At(s, 1) \o redact_connection_string(From(s, 2))

format_database_error(error) ==
    LET error_str == lower(error)
    IN  IF contains(error_str, "access denied") \/ contains(error_str, "password")
        THEN "Database authentication failed. Please check credentials."
        ELSE IF contains(error_str, "timeout") \/ contains(error_str, "timed out")
        THEN "Database connection timed out. Please try again."
        ELSE IF contains(error_str, "connection refused") \/ contains(error_str, "can't connect")
        THEN "Unable to connect to database. Please check if the database is running."
        ELSE IF contains(error_str, "unknown database")
        THEN "Database not found. Please check the database name."
        ELSE IF contains(error_str, "table") /\ contains(error_str, "doesn't exist")
        THEN IF TableMatches(error_str) # {}
             THEN "Table '" \o TableGroup(error_str) \o "' does not exist."
             ELSE "Table does not exist."
        ELSE IF contains(error_str, "duplicate entry")
        THEN "Duplicate entry error. A record with this value already exists."
        ELSE IF contains(error_str, "foreign key constraint")
        THEN "Foreign key constraint violation. Please check related records."
        ELSE IF contains(error_str, "syntax error")
        THEN "SQL syntax error. Please check your query."
        ELSE "Database error: " \o redact_connection_string(redact_password(error))

\* the fixed category messages that name no table
CategoryMessages == {
    "Database authentication failed. Please check credentials.",
    "Database connection timed out. Please try again.",
    "Unable to connect to database. Please check if the database is running.",
    "Database not found. Please check the database name.",
    "Table does not exist.",
    "Duplicate entry error. A record with this value already exists.",
    "Foreign key constraint violation. Please check related records.",
    "SQL syntax error. Please check your query."}

\* the driver's text for a missing table, as str(error) gives it
MissingTable(prefix, table, suffix) ==
    prefix \o "Table '" \o table \o "' doesn't exist" \o suffix

ErrorPrefixes == {"", "(1146, \""}
ErrorSuffixes == {"", "\")"}
MissingTableNames == {
    "users", "shop.users", "shop.Orders", "shop.order_items", "t",
    "shop.password_resets", "shop.timeout_log", "Accounts",
    "app.user_passwords", "x.access denied", "shop.unknown database"}

OtherErrors == {
    "(1045, \"Access denied for user 'root'@'localhost' (using password: YES)\")",
    "(2003, \"Can't connect to MySQL server on 'db' (timed out)\")",
    "(2003, \"Can't connect to MySQL server on 'db'\")",
    "Connection refused",
    "Lock wait timeout exceeded; try restarting transaction",
    "(1049, \"Unknown database 'shop'\")",
    "(1062, \"Duplicate entry '7' for key 'PRIMARY'\")",
    "(1452, 'Cannot add or update a child row: a foreign key constraint fails')",
    "(1064, 'You have an error in your SQL syntax; check the manual')",
    "syntax error near 'FROM'",
    "(1051, \"Unknown table 'shop.users'\")",
    "Table doesn't exist",
    "(1054, \"Unknown column 'pwd' in 'field list'\")",
    "Lost connection to mysql://admin:s3cret@db:3306/shop",
    "mysql://@db and mysql://a@b@c",
    "(2013, 'Lost connection to MySQL server during query')",
    "Cannot acquire connection from pool",
    "PASSWORD = 'hunter2' rejected",
    ""}

DriverErrors ==
    {MissingTable(p, t, x) : p \in ErrorPrefixes, t \in MissingTableNames, x \in ErrorSuffixes}
        \cup OtherErrors

FormatDatabaseError ==
    /\ req.op = "format_database_error"
    /\ res = Pending
    /\ res' = [text |-> format_database_error(req.error)]
    /\ UNCHANGED <<req, permVars, toolVars, txnVars>>

InitFormat ==
    /\ NoPermInit /\ ToolInit /\ TxnInit
    /\ req \in [op : {"format_database_error"}, error : DriverErrors]
    /\ res = Pending

NextFormat == FormatDatabaseError
SpecFormat == InitFormat /\ [][NextFormat]_vars

(***************************************************************************)
(* C25: the missing-table message                                          *)
(***************************************************************************)
\* C25: for every driver error of the form "Table 'T' doesn't exist",
\* format_database_error returns the missing-table message that names T,
\* whatever the name T is.
C25_MissingTableNamed ==
    \A p \in ErrorPrefixes, t \in MissingTableNames, x \in ErrorSuffixes :
        (Evaluated("format_database_error") /\ req.error = MissingTable(p, t, x))
            => res.text = "Table '" \o t \o "' does not exist."

(***************************************************************************)
(* The query executor: execute_query of src/src/database/utils.py over     *)
(* get_cursor and get_connection of src/src/database/connection.py, and     *)
(* _execute_query of src/main.py.  A call is a task; one action is the code *)
(* between two awaits.  While a call is in flight the result field of its   *)
(* task holds the exception that is propagating, if any.                    *)
(***************************************************************************)
ExecStatements == {"SELECT 1", "INSERT INTO t VALUES (1)"}

MaxQueries == 2

\* execute_query as such (fetch_all) and as execute_database of
\* src/src/tools/write_tools.py calls it (return_cursor: nothing is fetched)
QueryCallers == {"execute_query", "execute_database"}

ExecErrors == {
    "(1045, \"Access denied for user 'root'@'localhost' (using password: YES)\")",
    "Lost connection to mysql://admin:s3cret@db:3306/shop"}

\* format_database_error, is_write_operation and validate_sql_query on the
\* inputs of the executor
FormattedError == [e \in ExecErrors |-> format_database_error(e)]
IsWrite == [sql \in ExecStatements |-> is_write_operation(sql)]
IsValid == [sql \in ExecStatements |-> validate_sql_query(sql).is_valid]

\* DatabaseOperationResult / QueryResult: duration tells whether the result
\* carries a duration
OperationResult(success, data, error, duration) ==
    [success |-> success, data |-> data, error |-> error, duration |-> duration]

NoException == [raised |-> FALSE, error |-> NoValue]
Raised(e) == [raised |-> TRUE, error |-> e]

\* the statement was carried out on a connection of its own (txn 0) or on the
\* connection of transaction txn, while transaction `active` was the recorded
\* one (0: none); state is "pending", "committed" or "rolledback"
Write(task, caller, txn, active) ==
    [task |-> task, caller |-> caller, txn |-> txn, active |-> active,
     state |-> "pending"]

\* the pending writes of a call, after its connection committed or rolled back
Settle(ws, task, state) ==
    [i \in DOMAIN ws |->
        IF ws[i].task = task /\ ws[i].txn = 0 /\ ws[i].state = "pending"
        THEN [ws[i] EXCEPT !.state = state]
        ELSE ws[i]]

\* pool.release(conn) left out
release_skipped(n) == n

\* pool.release(conn) at the exit of `async with pool.acquire() as conn`
release(n) == n - 1

ExecPc(t, pc, exception) ==
    tasks' = [tasks EXCEPT ![t] = [@ EXCEPT !.pc = pc, !.result = exception]]

\* execute_query is called, by execute_database once the statement has
\* passed validate_sql_query: start_time is taken, get_cursor() is entered
ExecStart ==
    \E t \in DOMAIN tasks, sql \in ExecStatements, caller \in QueryCallers :
        /\ StartCall(t, caller, sql)
        /\ ncalls < MaxQueries
        /\ caller = "execute_database" => IsValid[sql]
        /\ tasks' = [tasks EXCEPT ![t] = [pc |-> "exec_acquiring", action |-> caller,
                                          name |-> sql, txn |-> 0, result |-> NoException]]
        /\ UNCHANGED <<active_transactions, txns, pool, shutdown, others>>

\* the except clause of execute_query (utils.py:64-79)
ExecFailed(t, e) ==
    Return(t, tasks[t].action, tasks[t].name,
           OperationResult(FALSE, NoValue, FormattedError[e], TRUE))

\* get_pool() and pool.acquire() of get_connection
ExecAcquire ==
    \E t \in DOMAIN tasks :
        /\ tasks[t].pc = "exec_acquiring"
        /\ \/ /\ Cardinality(Leased) + used < PoolMaxSize
              /\ pool' = "open"
              /\ used' = used + 1
              /\ ExecPc(t, "exec_executing", NoException)
           \/ \E e \in ExecErrors :
                /\ ExecFailed(t, e)
                /\ UNCHANGED <<pool, used>>
        /\ UNCHANGED <<active_transactions, txns, ncalls, shutdown, writes,
                       pool_lock, pools, sessions, now,
                       req, res, permVars, toolVars>>

\* cursor.execute(sql) returns or raises
ExecExecute ==
    \E t \in DOMAIN tasks :
        /\ tasks[t].pc = "exec_executing"
        /\ \/ /\ ExecPc(t, IF tasks[t].action = "execute_database"
                           THEN "exec_commit" ELSE "exec_fetching", NoException)
              /\ writes' = IF IsWrite[tasks[t].name]
                           THEN Append(writes, Write(t, tasks[t].action, 0,
                                    lookup_transaction(active_transactions, txns)))
                           ELSE writes
           \/ \E e \in ExecErrors :
                /\ ExecPc(t, "exec_rollback", Raised(e))
                /\ UNCHANGED writes
        /\ UNCHANGED <<active_transactions, txns, pool, ncalls, shutdown, used,
                       pool_lock, pools, sessions, now,
                       req, res, permVars, toolVars>>

\* cursor.fetchall() / fetchone() returns or raises
ExecFetch ==
    \E t \in DOMAIN tasks :
        /\ tasks[t].pc = "exec_fetching"
        /\ \/ ExecPc(t, "exec_commit", NoException)
           \/ \E e \in ExecErrors : ExecPc(t, "exec_rollback", Raised(e))
        /\ UNCHANGED <<active_transactions, txns, pool, ncalls, shutdown, others>>

\* `except Exception: await conn.rollback(); raise` of get_connection: when
\* the rollback raises, its exception is the one that propagates
ExecRollback ==
    \E t \in DOMAIN tasks :
        /\ tasks[t].pc = "exec_rollback"
        /\ \/ /\ ExecPc(t, "exec_commit", tasks[t].result)
              /\ writes' = Settle(writes, t, "rolledback")
           \/ \E e \in ExecErrors :
                /\ ExecPc(t, "exec_commit", Raised(e))
                /\ UNCHANGED writes
        /\ UNCHANGED <<active_transactions, txns, pool, ncalls, shutdown, used,
                       pool_lock, pools, sessions, now,
                       req, res, permVars, toolVars>>

\* `finally: await conn.commit()` of get_connection, whose failure is
\* swallowed; then the connection goes back to the pool and execute_query
\* returns its result
ExecCommit ==
    \E t \in DOMAIN tasks, committed \in BOOLEAN :
        /\ tasks[t].pc = "exec_commit"
        /\ writes' = IF committed THEN Settle(writes, t, "committed") ELSE writes
        /\ used' = release(used)
        /\ IF tasks[t].result.raised
           THEN ExecFailed(t, tasks[t].result.error)
           ELSE Return(t, tasks[t].action, tasks[t].name,
                       OperationResult(TRUE, "rows", NoValue, TRUE))
        /\ UNCHANGED <<active_transactions, txns, pool, ncalls, shutdown,
                       pool_lock, pools, sessions, now,
                       req, res, permVars, toolVars>>

\* _execute_query of src/main.py, on the server's own pool: the connection is
\* leased and returned by `async with self.pool.acquire()`
MainExecuteQuery ==
    \E t \in DOMAIN tasks, sql \in ExecStatements :
        /\ StartCall(t, "_execute_query", sql)
        /\ ncalls < MaxQueries
        /\ \/ Return(t, "_execute_query", sql,
                     OperationResult(FALSE, NoValue, "Not connected to database", FALSE))
           \/ Return(t, "_execute_query", sql, OperationResult(TRUE, "rows", NoValue, TRUE))
           \/ \E e \in ExecErrors :
                Return(t, "_execute_query", sql, OperationResult(FALSE, NoValue, e, TRUE))
        /\ UNCHANGED <<active_transactions, txns, pool, shutdown, others>>

InitExec ==
    /\ NoPermInit /\ ToolInit /\ TasksInit(MaxTasks)
    /\ req = NoRequest
    /\ res = Pending

NextExec ==
    \/ ExecStart \/ ExecAcquire \/ ExecExecute \/ ExecFetch \/ ExecRollback
    \/ ExecCommit \/ MainExecuteQuery

SpecExec == InitExec /\ [][NextExec]_vars

(***************************************************************************)
(* C21, C23: the result and the connection of a standalone query           *)
(***************************************************************************)
Executors == QueryCallers \cup {"_execute_query"}

\* the secrets that the driver errors above carry
Credentials == {"s3cret", "root", "password"}

endswith(s, suffix) ==
    Len(s) >= Len(suffix) /\ From(s, Len(s) - Len(suffix) + 1) = suffix

\* a text the error formatter can produce
IsFormatted(text) ==
    \/ text \in CategoryMessages
    \/ startswith(text, "Table '") /\ endswith(text, "' does not exist.")
    \/ /\ startswith(text, "Database error: ")
       /\ \A c \in Credentials : ~contains(text, c)

\* C21: a query executor never raises: every failure of acquiring the pool or
\* a connection, of executing or of fetching is returned as a result with
\* success false, an error text produced by the error formatter, no data and
\* a duration; a result with success true carries no error.
C21_FailureIsFormattedResult ==
    \A t \in DOMAIN tasks :
        (tasks[t].pc = "idle" /\ tasks[t].action \in Executors)
            => IF tasks[t].result.success
               THEN tasks[t].result.error = NoValue
               ELSE /\ IsFormatted(tasks[t].result.error)
                    /\ tasks[t].result.data = NoValue
                    /\ tasks[t].result.duration

\* the calls of execute_query that hold a connection
Holding == {t \in DOMAIN tasks :
               tasks[t].pc \in {"exec_executing", "exec_fetching", "exec_rollback",
                                "exec_commit"}}

\* C23: a standalone execute_query leases at most one connection and has
\* given it back when it returns, with a result or a failure: the
\* connections leased are those of the calls in flight, so with no call in
\* flight and no transaction active none is leased.
C23_StandaloneLeaseReturned ==
    /\ used = Cardinality(Holding)
    /\ (\A t \in DOMAIN tasks : tasks[t].pc = "idle") => used + Cardinality(Leased) = 0

\* a call that failed after it had leased a connection and sent its
\* statement has returned, and so has one that succeeded
C23_Witness ==
    /\ used = 0
    /\ \A t \in DOMAIN tasks : tasks[t].pc = "idle"
    /\ \E i \in DOMAIN writes : writes[i].state = "rolledback"
    /\ \E t \in DOMAIN tasks :
           /\ tasks[t].pc = "idle" /\ tasks[t].action = "execute_query"
           /\ ~tasks[t].result.success
    /\ \E t \in DOMAIN tasks :
           /\ tasks[t].pc = "idle" /\ tasks[t].action = "execute_query"
           /\ tasks[t].result.success

(***************************************************************************)
(* Tools that do not look at the result of a statement: list_tables and     *)
(* describe_table of src/src/tools/basic_tools.py over the helpers of       *)
(* src/src/database/utils.py, and manage_stored_procedure of                *)
(* src/src/tools/advanced_tools.py.  db[k] tells whether the k-th           *)
(* execute_query of the call succeeds.                                      *)
(***************************************************************************)
MaxStatements == 3

\* what a tool returned, the statements it issued and those that failed
ToolOutcome(response, issued, db) ==
    [response |-> response,
     issued |-> issued,
     failed |-> Cardinality({k \in 1..issued : ~db[k]})]

\* get_table_list, get_table_columns, get_table_indexes,
\* get_table_foreign_keys: `result.data if result.success else []`
rows_or_empty(success) == IF success THEN <<"row">> ELSE << >>

total_count(tables) == IF Len(tables) = 0 THEN "0" ELSE "1"

list_tables(db) ==
    LET tables == rows_or_empty(db[1])
    IN  ToolOutcome(create_success_response(
                        "**Total tables found:** " \o total_count(tables)), 1, db)

describe_table(table, include_indexes, include_foreign_keys, db) ==
    LET table_name == sanitize_identifier(table)
        n_indexes == IF include_indexes THEN 1 ELSE 0
        n_foreign_keys == IF include_foreign_keys THEN 1 ELSE 0
    IN  IF table_name.raised
        THEN ToolOutcome(create_error_response(
                 "Failed to describe table: " \o table_name.error), 0, db)
        ELSE ToolOutcome(create_success_response(
                 "**Table Structure: " \o table_name.value \o "**"),
                 1 + n_indexes + n_foreign_keys, db)

ProcedureActions == {"show", "create", "drop", "modify"}

title(action) ==
    CASE action = "created" -> "Created"
      [] action = "dropped" -> "Dropped"
      [] action = "modified" -> "Modified"

procedure_response(action, success) ==
    create_success_response(
        "**Stored Procedure " \o title(action) \o "**  Status: "
            \o (IF success THEN "Success" ELSE "Failed"))

procedure_error(action, error) ==
    create_error_response("Failed to " \o action \o " stored procedure: " \o error)

manage_stored_procedure(action, name, has_definition, db) ==
    LET quoted == quote_identifier(name)
    IN  CASE action = "show" ->
               IF name = ""
               THEN ToolOutcome(create_success_response("**Stored Procedures**"), 1, db)
               ELSE IF quoted.raised
               THEN ToolOutcome(procedure_error(action, quoted.error), 0, db)
               ELSE ToolOutcome(create_success_response("**Stored Procedures**"), 1, db)
          [] action \in {"create", "modify"} ->
               IF name = "" \/ ~has_definition
               THEN ToolOutcome(procedure_error(action,
                        "Name and definition required for " \o action), 0, db)
               ELSE IF quoted.raised
               THEN ToolOutcome(procedure_error(action, quoted.error), 0, db)
               ELSE ToolOutcome(procedure_response(
                        IF action = "create" THEN "created" ELSE "modified", db[2]), 2, db)
          [] action = "drop" ->
               IF name = ""
               THEN ToolOutcome(procedure_error(action, "Name required for drop"), 0, db)
               ELSE IF quoted.raised
               THEN ToolOutcome(procedure_error(action, quoted.error), 0, db)
               ELSE ToolOutcome(procedure_response("dropped", db[1]), 1, db)

ObjectNames == {"", "get_users", "get users"}

ListTables ==
    /\ req.op = "list_tables"
    /\ res = Pending
    /\ res' = list_tables(req.db)
    /\ UNCHANGED <<req, permVars, toolVars, txnVars>>

DescribeTable ==
    /\ req.op = "describe_table"
    /\ res = Pending
    /\ res' = describe_table(req.name, req.include_indexes, req.include_foreign_keys,
                             req.db)
    /\ UNCHANGED <<req, permVars, toolVars, txnVars>>

ManageStoredProcedure ==
    /\ req.op = "manage_stored_procedure"
    /\ res = Pending
    /\ res' = manage_stored_procedure(req.action, req.name, req.has_definition, req.db)
    /\ UNCHANGED <<req, permVars, toolVars, txnVars>>

InitEnvelope ==
    /\ NoPermInit /\ ToolInit /\ TxnInit
    /\ req \in [op : {"list_tables"}, db : [1..MaxStatements -> BOOLEAN]]
           \cup [op : {"describe_table"}, name : ObjectNames,
                 include_indexes : BOOLEAN, include_foreign_keys : BOOLEAN,
                 db : [1..MaxStatements -> BOOLEAN]]
           \cup [op : {"manage_stored_procedure"}, action : ProcedureActions,
                 name : ObjectNames, has_definition : BOOLEAN,
                 db : [1..MaxStatements -> BOOLEAN]]
    /\ res = Pending

NextEnvelope == ListTables \/ DescribeTable \/ ManageStoredProcedure
SpecEnvelope == InitEnvelope /\ [][NextEnvelope]_vars

(***************************************************************************)
(* C22: a failed statement and the envelope                                *)
(***************************************************************************)
EnvelopeTools == {"list_tables", "describe_table", "manage_stored_procedure"}

\* C22: no tool returns a success envelope for a call in which a database
\* statement that it issued failed.
C22_FailedStatementIsError ==
    (req.op \in EnvelopeTools /\ res # Pending /\ res.failed > 0)
        => res.response.isError

(***************************************************************************)
(* src/src/auth/session.py: the session store.  Time is counted in ticks;   *)
(* session ids are tokens that are never drawn twice, here 1, 2, ...        *)
(***************************************************************************)
SessionLifetime == 2
MaxSessions == 2
MaxTime == SessionLifetime + 2

sessionOthers == <<permVars, toolVars, active_transactions, txns, pool, tasks, ncalls,
                   shutdown, pool_lock, pools, used, writes>>

\* the time the expiry of get_session would count from if every access
\* renewed the session
expiry_base_last_accessed(session) == session.last_accessed

\* session["created_at"] of the expiry test (session.py:74)
expiry_base(session) == session.created_at

expired(session, time) == time - expiry_base(session) > SessionLifetime

\* del _sessions[session_id]
destroy_session(store, id) == [k \in DOMAIN store \ {id} |-> store[k]]

\* what get_session returned for the session it found, if any
SessionResult(id, session, returned) ==
    [op |-> "get_session", id |-> id, existed |-> TRUE, returned |-> returned,
     created_at |-> session.created_at, last_accessed |-> session.last_accessed,
     at |-> now]

NoSessionResult(id) ==
    [op |-> "get_session", id |-> id, existed |-> FALSE, returned |-> FALSE,
     created_at |-> 0, last_accessed |-> 0, at |-> now]

Tick ==
    /\ now < MaxTime
    /\ now' = now + 1
    /\ UNCHANGED <<sessions, req, res, sessionOthers>>

CreateSession ==
    \E login \in ConfiguredNames :
        /\ req.id < MaxSessions
        /\ req' = [op |-> "create_session", id |-> req.id + 1]
        /\ sessions' = [k \in DOMAIN sessions \cup {req.id + 1} |->
                           IF k = req.id + 1
                           THEN [user |-> login, created_at |-> now, last_accessed |-> now]
                           ELSE sessions[k]]
        /\ res' = [op |-> "create_session", id |-> req.id + 1]
        /\ UNCHANGED <<now, sessionOthers>>

GetSession ==
    \E id \in 1..MaxSessions :
        /\ IF id \notin DOMAIN sessions
           THEN /\ res' = NoSessionResult(id)
                /\ UNCHANGED sessions
           ELSE IF expired(sessions[id], now)
           THEN /\ res' = SessionResult(id, sessions[id], FALSE)
                /\ sessions' = destroy_session(sessions, id)
           ELSE /\ res' = SessionResult(id, sessions[id], TRUE)
                /\ sessions' = [sessions EXCEPT ![id].last_accessed = now]
        /\ UNCHANGED <<now, req, sessionOthers>>

DestroySession ==
    \E id \in DOMAIN sessions :
        /\ sessions' = destroy_session(sessions, id)
        /\ res' = [op |-> "destroy_session", id |-> id]
        /\ UNCHANGED <<now, req, sessionOthers>>

CleanupExpiredSessions ==
    LET expired_sessions == {id \in DOMAIN sessions :
                                now - sessions[id].created_at > SessionLifetime}
    IN  /\ sessions' = [k \in DOMAIN sessions \ expired_sessions |-> sessions[k]]
        /\ res' = [op |-> "cleanup_expired_sessions", id |-> Cardinality(expired_sessions)]
        /\ UNCHANGED <<now, req, sessionOthers>>

InitSession ==
    /\ NoPermInit /\ ToolInit /\ TxnInit
    /\ req = [op |-> NoValue, id |-> 0]
    /\ res = [op |-> NoValue, id |-> 0]

NextSession ==
    Tick \/ CreateSession \/ GetSession \/ DestroySession \/ CleanupExpiredSessions

SpecSession == InitSession /\ [][NextSession]_vars

(***************************************************************************)
(* C24: session expiry                                                     *)
(***************************************************************************)
\* C24: the expiry of a session is absolute, counted from its creation:
\* get_session returns the session exactly while the time since created_at
\* is at most the lifetime; afterwards it returns none and the session is
\* deleted; an access updates last_accessed only and never postpones the
\* expiry.
C24_AbsoluteExpiry ==
    /\ (res.op = "get_session" /\ res.existed)
         => /\ res.returned <=> (res.at - res.created_at <= SessionLifetime)
            /\ ~res.returned => res.id \notin DOMAIN sessions
    /\ \A id \in DOMAIN sessions :
         /\ sessions[id].created_at <= sessions[id].last_accessed
         /\ sessions[id].last_accessed - sessions[id].created_at <= SessionLifetime

\* a session that was accessed after its creation was refused and deleted at
\* a time when an expiry counted from the last access would have kept it
C24_Witness ==
    /\ res.op = "get_session" /\ res.existed /\ ~res.returned
    /\ res.last_accessed > res.created_at
    /\ res.at - res.last_accessed <= SessionLifetime
    /\ res.id \notin DOMAIN sessions

(***************************************************************************)
(* C11..C12: actions that need an active transaction; savepoints           *)
(***************************************************************************)
\* a step in which task t starts a call with one of the given actions
StartsAction(t, actions) ==
    /\ ncalls' = ncalls + 1
    /\ tasks'[t] # tasks[t]
    /\ tasks'[t].action \in actions

NeedsTransaction == {"commit", "rollback", "savepoint", "release_savepoint"}

\* C11: whenever no transaction record exists for the session key,
\* manage_transaction with action commit, rollback, savepoint or
\* release_savepoint returns the "no active transaction" error, sends no
\* statement, acquires no connection and leaves the transaction map empty.
C11_NoActiveTransactionRejected ==
    [][\A t \in DOMAIN tasks :
          (StartsAction(t, NeedsTransaction) /\ session_id \notin DOMAIN active_transactions)
              => /\ tasks'[t].pc = "idle"
                 /\ tasks'[t].result = "no_active"
                 /\ txns' = txns
                 /\ pool' = pool
                 /\ active_transactions' = << >>]_vars

\* commit was answered "no active transaction" after an earlier transaction
\* had been committed and its record removed
C11_Witness ==
    \E t \in DOMAIN tasks :
        /\ Returned(t, "commit", {"no_active"})
        /\ active_transactions = << >>
        /\ Len(txns) = 1
        /\ txns[1].db = "committed"
\* the state after one manage_transaction(begin) has succeeded: the transaction
\* is recorded and holds its connection; ncalls counts the calls made from here
InitSavepoint ==
    /\ NoPermInit /\ ToolInit /\ ExtInit
    /\ req = NoRequest
    /\ res = Pending
    /\ txns = <<[NewTransaction EXCEPT !.db = "open"]>>
    /\ active_transactions = [k \in {session_id} |-> 1]
    /\ pool = "open"
    /\ tasks = [t \in 1..MaxTasks |-> IdleTask]
    /\ ncalls = 0
    /\ shutdown = "running"

NextSavepoint == SavepointStart \/ SavepointReply \/ ReleaseStart \/ ReleaseReply

SpecSavepoint == InitSavepoint /\ [][NextSavepoint]_vars

\* the savepoint list of the recorded transaction
ActiveSavepoints == txns[active_transactions[session_id]].savepoints

\* the list without name, every other entry kept in order
Without(list, name) ==
    LET Keep(x) == x # name IN SelectSeq(list, Keep)

\* a step in which manage_transaction(release_savepoint) of task t returns
\* success
ReleaseSucceeds(t) ==
    /\ tasks[t].pc = "release_sent"
    /\ tasks'[t].pc = "idle"
    /\ tasks'[t].result = "savepoint_released"

\* C12: in an active transaction release_savepoint(name) goes ahead exactly
\* when name is in the savepoint list. When it is, RELEASE SAVEPOINT is sent
\* and, once the call has succeeded, name is no longer in the list and every
\* other entry is kept in order; when it is not, the call returns the
\* "not found" error listing the active savepoints, sends no statement and
\* leaves the list unchanged.
C12_ReleaseSavepointTracked ==
    [][\A t \in DOMAIN tasks :
          /\ (StartsAction(t, {"release_savepoint"}) /\ tasks'[t].name # "")
                => IF InList(ActiveSavepoints, tasks'[t].name)
                   THEN tasks'[t].pc = "release_sent"
                   ELSE /\ tasks'[t].pc = "idle"
                        /\ tasks'[t].result = "savepoint_not_found"
                        /\ txns' = txns
          /\ ReleaseSucceeds(t)
                => /\ ~InList(ActiveSavepoints', tasks[t].name)
                   /\ ActiveSavepoints' = Without(ActiveSavepoints, tasks[t].name)]_vars

(***************************************************************************)
(* C26: writes while a transaction is active                               *)
(***************************************************************************)
\* a transaction is open and recorded; statements are run through
\* execute_database and execute_query while it is committed or rolled back
NextWrite ==
    \/ ExecStart \/ ExecAcquire \/ ExecExecute \/ ExecFetch \/ ExecRollback
    \/ ExecCommit
    \/ CommitStart \/ CommitReply \/ ExitCommitReply \/ ExceptRollbackReply
    \/ RollbackStart \/ RollbackReply \/ ExitRollbackReply

SpecWrite == InitSavepoint /\ [][NextWrite]_vars

\* C26: while a transaction is active, a write made through execute_database
\* belongs to that transaction: it runs on the transaction's connection, it
\* is not durable before the transaction commits, and a rollback of the
\* transaction undoes it.
C26_WriteBelongsToTransaction ==
    \A i \in DOMAIN writes :
        (writes[i].active # 0 /\ writes[i].caller = "execute_database")
            => /\ writes[i].txn = writes[i].active
               /\ writes[i].state = "committed"
                    => txns[writes[i].active].db = "committed"

\* the same, for durability alone: a write of execute_database that is
\* durable although the transaction it was made in was rolled back
C26_DurableAfterRollback ==
    \E i \in DOMAIN writes :
        /\ writes[i].active # 0 /\ writes[i].caller = "execute_database"
        /\ writes[i].state = "committed"
        /\ txns[writes[i].active].db = "rolledback"

(***************************************************************************)
(* C27: commit and rollback racing on one transaction                      *)
(***************************************************************************)
EndResults == {"committed", "rolled_back", "failed"}

\* the calls t and u are a commit or a rollback each, both took the same
\* recorded transaction and both have returned
EndedTogether(t, u) ==
    /\ t # u
    /\ Returned(t, "commit", EndResults) \/ Returned(t, "rollback", EndResults)
    /\ Returned(u, "commit", EndResults) \/ Returned(u, "rollback", EndResults)
    /\ tasks[t].txn # 0
    /\ tasks[t].txn = tasks[u].txn

Succeeded(t) == tasks[t].result \in {"committed", "rolled_back"}

\* C27: when a commit and a rollback, two commits or two rollbacks run
\* concurrently on the same active transaction, exactly one of them returns
\* success, and what is reported matches the database: a rollback is not
\* reported as successful when the COMMIT was carried out, and a COMMIT that
\* was carried out is not reported as a failed commit.
C27_ConcurrentEndExclusive ==
    \A t, u \in DOMAIN tasks :
        EndedTogether(t, u)
            => /\ Succeeded(t) # Succeeded(u)
               /\ Returned(t, "rollback", {"rolled_back"})
                    => txns[tasks[t].txn].db # "committed"
               /\ Returned(t, "commit", {"failed"})
                    => txns[tasks[t].txn].db # "committed"

\* both calls sent their statement, so they ran concurrently, and the
\* rollback reports success on a transaction that the database committed
C27_RollbackReportedOnCommitted ==
    \E t, u \in DOMAIN tasks :
        /\ EndedTogether(t, u)
        /\ Returned(t, "rollback", {"rolled_back"})
        /\ tasks[u].action = "commit"
        /\ txns[tasks[t].txn].db = "committed"
        /\ txns[tasks[t].txn].commits >= 1
        /\ txns[tasks[t].txn].rollbacks >= 1

(***************************************************************************)
(* C28: a begin that fails                                                 *)
(***************************************************************************)
\* C28: when manage_transaction(begin) fails, because no connection could be
\* acquired or because BEGIN failed on the acquired connection, then once
\* the call has returned the transaction map holds no record for the session
\* key and no connection remains leased by that call.
C28_FailedBeginLeavesNothing ==
    \A t \in DOMAIN tasks :
        Returned(t, "begin", {"failed"})
            => /\ session_id \notin DOMAIN active_transactions
               /\ tasks[t].txn # 0 => ~txns[tasks[t].txn].leased

(***************************************************************************)
(* get_pool and close_pool of src/src/database/connection.py, called by    *)
(* concurrent tasks.  One action is the code between two awaits; a task     *)
(* that finds _pool_lock taken waits for it.                                *)
(***************************************************************************)
max_retries == 3

IdlePoolTask == [pc |-> "idle", action |-> NoValue, attempts |-> 0, result |-> NoValue]

poolOthers == <<req, res, permVars, toolVars, active_transactions, txns, shutdown,
                used, sessions, now, writes>>

\* a lock that every task can take at any time
lock_free_always(lock) == TRUE

\* _pool_lock can be taken
lock_free(lock) == lock = 0

PoolCall(t, action) ==
    /\ tasks[t].pc = "idle"
    /\ ncalls < MaxCalls
    /\ ncalls' = ncalls + 1
    /\ tasks' = [tasks EXCEPT ![t] = [pc |-> "lock", action |-> action, attempts |-> 0,
                                      result |-> NoValue]]

\* the call ends: `outcome` is "returned", "raised" or "closed"; pool_after is
\* the value of _pool it leaves
PoolReturn(t, outcome, pool_after) ==
    tasks' = [tasks EXCEPT ![t] = [@ EXCEPT !.pc = "idle",
                                            !.result = [outcome |-> outcome,
                                                        pool |-> pool_after]]]

GetPoolCall ==
    \E t \in DOMAIN tasks :
        /\ PoolCall(t, "get_pool")
        /\ UNCHANGED <<pool, pool_lock, pools, poolOthers>>

\* `async with _pool_lock: if _pool is None:` up to the first
\* aiomysql.create_pool, or `return _pool`
GetPoolLocked ==
    \E t \in DOMAIN tasks :
        /\ tasks[t].pc = "lock"
        /\ tasks[t].action = "get_pool"
        /\ lock_free(pool_lock)
        /\ IF pool = "unset"
           THEN /\ pool_lock' = t
                /\ tasks' = [tasks EXCEPT ![t] = [@ EXCEPT !.pc = "creating",
                                                          !.attempts = 1]]
           ELSE /\ pool_lock' = 0
                /\ PoolReturn(t, "returned", pool)
        /\ UNCHANGED <<pool, pools, ncalls, poolOthers>>

\* aiomysql.create_pool returns or raises; a failure before the last attempt
\* sleeps, the last one is raised out of get_pool
CreatePoolReply ==
    \E t \in DOMAIN tasks, ok \in BOOLEAN :
        /\ tasks[t].pc = "creating"
        /\ IF ok
           THEN /\ pool' = "open"
                /\ pools' = pools + 1
                /\ pool_lock' = 0
                /\ PoolReturn(t, "returned", "open")
           ELSE IF tasks[t].attempts < max_retries
           THEN /\ tasks' = [tasks EXCEPT ![t] = [@ EXCEPT !.pc = "sleeping"]]
                /\ UNCHANGED <<pool, pools, pool_lock>>
           ELSE /\ pool_lock' = 0
                /\ PoolReturn(t, "raised", pool)
                /\ UNCHANGED <<pool, pools>>
        /\ UNCHANGED <<ncalls, poolOthers>>

\* asyncio.sleep(1) is over: the next attempt
RetryCreatePool ==
    \E t \in DOMAIN tasks :
        /\ tasks[t].pc = "sleeping"
        /\ tasks' = [tasks EXCEPT ![t] = [@ EXCEPT !.pc = "creating",
                                                  !.attempts = @ + 1]]
        /\ UNCHANGED <<pool, pools, pool_lock, ncalls, poolOthers>>

ClosePoolCall ==
    \E t \in DOMAIN tasks :
        /\ PoolCall(t, "close_pool")
        /\ UNCHANGED <<pool, pool_lock, pools, poolOthers>>

\* `async with _pool_lock: if _pool is not None: _pool.close()` up to
\* wait_closed
ClosePoolLocked ==
    \E t \in DOMAIN tasks :
        /\ tasks[t].pc = "lock"
        /\ tasks[t].action = "close_pool"
        /\ lock_free(pool_lock)
        /\ IF pool = "unset"
           THEN /\ pool_lock' = 0
                /\ PoolReturn(t, "closed", pool)
                /\ UNCHANGED pool
           ELSE /\ pool_lock' = t
                /\ pool' = "closing"
                /\ tasks' = [tasks EXCEPT ![t] = [@ EXCEPT !.pc = "wait_closed"]]
        /\ UNCHANGED <<pools, ncalls, poolOthers>>

\* wait_closed returns; `_pool = None`
PoolWaitClosed ==
    \E t \in DOMAIN tasks :
        /\ tasks[t].pc = "wait_closed"
        /\ pool' = "unset"
        /\ pools' = pools - 1
        /\ pool_lock' = 0
        /\ PoolReturn(t, "closed", "unset")
        /\ UNCHANGED <<ncalls, poolOthers>>

InitPool ==
    /\ NoPermInit /\ ToolInit /\ ExtInit
    /\ req = NoRequest
    /\ res = Pending
    /\ active_transactions = << >>
    /\ txns = << >>
    /\ pool = "unset"
    /\ tasks = [t \in 1..MaxTasks |-> IdlePoolTask]
    /\ ncalls = 0
    /\ shutdown = "running"

NextPool ==
    \/ GetPoolCall \/ GetPoolLocked \/ CreatePoolReply \/ RetryCreatePool
    \/ ClosePoolCall \/ ClosePoolLocked \/ PoolWaitClosed

SpecPool == InitPool /\ [][NextPool]_vars

(***************************************************************************)
(* C29: one pool                                                           *)
(***************************************************************************)
\* C29: under every interleaving of concurrent calls get_pool creates at most
\* one pool: creation is serialised by the pool lock, a call makes at most 3
\* attempts, a call whose 3 attempts all fail raises and leaves the pool
\* unset, and once a pool exists every call returns it without a new attempt
\* until close_pool resets it.
C29_SinglePool ==
    /\ pools = (IF pool = "unset" THEN 0 ELSE 1)
    /\ \A t \in DOMAIN tasks :
         /\ tasks[t].attempts <= max_retries
         /\ tasks[t].pc \in {"creating", "sleeping"}
              => pool_lock = t /\ pool = "unset"
         /\ (tasks[t].pc = "idle" /\ tasks[t].action = "get_pool")
              => CASE tasks[t].result.outcome = "raised" ->
                        tasks[t].attempts = max_retries /\ tasks[t].result.pool = "unset"
                   [] tasks[t].result.outcome = "returned" ->
                        tasks[t].result.pool = "open"

\* one call gave up after its third attempt, another created the pool at its
\* second attempt
C29_Witness ==
    /\ pools = 1
    /\ \E t, u \in DOMAIN tasks :
         /\ tasks[t].pc = "idle" /\ tasks[t].action = "get_pool"
         /\ tasks[t].result.outcome = "raised"
         /\ tasks[u].pc = "idle" /\ tasks[u].action = "get_pool"
         /\ tasks[u].result.outcome = "returned" /\ tasks[u].attempts = 2

(***************************************************************************)
(* C30: the savepoint list and the database                                *)
(***************************************************************************)
Names(list) == {list[i] : i \in DOMAIN list}

\* C30: after any sequence of savepoint and release_savepoint calls in an
\* active transaction the savepoint list contains no name twice and holds
\* exactly the savepoints that are live in the database (creating a name that
\* is tracked already replaces it); a SAVEPOINT statement that fails leaves
\* the list unchanged.
C30_SavepointListMatchesDatabase ==
    /\ Cardinality(Names(ActiveSavepoints)) = Len(ActiveSavepoints)
    /\ Names(ActiveSavepoints) = txns[active_transactions[session_id]].live

\* a step in which the SAVEPOINT of a call fails
SavepointFails(t) ==
    /\ tasks[t].pc = "savepoint_sent"
    /\ tasks'[t].pc = "idle"
    /\ tasks'[t].result = "failed"

\* a SAVEPOINT statement that fails leaves the list unchanged
C30_FailedSavepointKeepsList ==
    [][\A t \in DOMAIN tasks : SavepointFails(t) => ActiveSavepoints' = ActiveSavepoints]_vars

\* the list has lost its tie to the database: the name is tracked but the
\* database holds no savepoint of that name
C30_TrackedButReleased ==
    \E i \in DOMAIN ActiveSavepoints :
        ActiveSavepoints[i] \notin txns[active_transactions[session_id]].live

====
